---- MODULE Spec2Model ----
(***************************************************************************)
(* final-ride: optional AES-GCM encryption, chunking with per-chunk        *)
(* SHA-256 digests, upload/download through an untrusted object store      *)
(* (Ethereum Swarm gateway), driven by a JSON manifest (Metadata).         *)
(*                                                                         *)
(* Three programs of the repository are modelled over one set of library   *)
(* operators:                                                              *)
(*   prog = "chunktest"  TestChunkingReassembly, over all bounded inputs   *)
(*   prog = "cryptotest" TestEncryptionDecryption, over all bounded inputs *)
(*   prog = "cli"        cmd/cli main(): one upload, then one download     *)
(*                                                                         *)
(* Representation.  Byte strings are sequences of integers.  Go strings    *)
(* that the code parses or formats (chunk keys, base64 keys) are sequences *)
(* of character codes; the empty sequence is the empty string.  A Go map   *)
(* is a function; a lookup of a missing key yields the zero value.         *)
(***************************************************************************)
EXTENDS Integers, Sequences, FiniteSets, TLC

\* ------------------------------------------------------------------ bounds

\* longest file content (bytes)
MaxLen == 3
\* SplitIntoChunks never terminates for chunkSize = 0 on a non-empty payload:
\* the model follows the loop for at most this many iterations
MaxIter == 8
\* 1024 * 1024 (bytes per MB of chunk_size_mb), scaled down so that bounded
\* payloads cross the chunking threshold
MiB == 2
\* maps with at most this many keys are ranged over in every order
MaxPermKeys == 4
\* calls of EncryptData under one key and plaintext that are compared
MaxTrials == 2
\* library calls that are made, in any order, over the same buffers
MaxCalls == 3
\* buttons clicked, switches flipped and dialogs opened in a run of the gui
MaxClicks == 2

\* byte values of file contents
Byte == {0, 1}

\* ----------------------------------------------------------------- helpers

\* mutant: one short when the second argument bounds the first
Min_OffByOne(a, b) == IF a < b THEN a ELSE b - 1

Min(a, b) == IF a < b THEN a ELSE b

\* all byte strings over S of length at most n
BSeq(S, n) == UNION {[1..k -> S] : k \in 0..n}

RECURSIVE Concat(_)
\* concatenation of a sequence of sequences
Concat(ss) == IF ss = <<>> THEN <<>> ELSE Head(ss) \o Concat(Tail(ss))

\* Go map read m[k]: the zero value when k is missing
MapGet(m, k, zero) == IF k \in DOMAIN m THEN m[k] ELSE zero

\* Go map write m[k] = v
MapPut(m, k, v) == [x \in (DOMAIN m) \cup {k} |-> IF x = k THEN v ELSE m[x]]

\* the empty Go map (nil and empty maps behave alike under range, len, read)
EmptyMap == <<>>

\* ------------------------------------------------- strconv (character codes)

\* character codes: 0..9 are the digits '0'..'9'; one non-digit letter and
\* the minus sign stand for every other character
Chars == [letter |-> 10, minus |-> 11]

RECURSIVE Digits(_)
Digits(n) == IF n < 10 THEN <<n>> ELSE Append(Digits(n \div 10), n % 10)

\* strconv.Itoa and fmt.Sprintf("%d", n)
Itoa(n) == IF n < 0 THEN <<Chars.minus>> \o Digits(0 - n) ELSE Digits(n)

RECURSIVE DigitsValue(_)
DigitsValue(s) == IF s = <<>> THEN 0 ELSE 10 * DigitsValue(SubSeq(s, 1, Len(s) - 1)) + s[Len(s)]

IsDigits(s) == s # <<>> /\ \A j \in 1..Len(s) : s[j] \in 0..9

\* strconv.Atoi with its error dropped (num, _ := strconv.Atoi(k)): 0 on a
\* syntax error; leading zeros and a sign are accepted
Atoi(s) ==
    IF IsDigits(s) THEN DigitsValue(s)
    ELSE IF Len(s) >= 2 /\ s[1] = Chars.minus /\ IsDigits(Tail(s)) THEN 0 - DigitsValue(Tail(s))
    ELSE 0

RECURSIVE InsertSorted(_, _)
InsertSorted(x, s) ==
    IF s = <<>> THEN <<x>>
    ELSE IF x <= Head(s) THEN <<x>> \o s
    ELSE <<Head(s)>> \o InsertSorted(x, Tail(s))

RECURSIVE SortInts(_)
\* sort.Ints: ascending, duplicates kept
SortInts(s) == IF s = <<>> THEN <<>> ELSE InsertSorted(Head(s), SortInts(Tail(s)))

\* ------------------------------------------------------------------ digest

\* the empty string, which is what a missing chunk_hashes entry reads as
NoHash == <<>>

\* fmt.Sprintf("%x", sha256.Sum256(b)): collision-free on the bounded
\* payloads and never the empty string
Sha256Hex(b) == <<Len(b)>> \o b

\* --------------------------------------------------------- range over a map

RECURSIVE AscSeq(_)
\* the keys of a set of key strings, in some fixed order
AscSeq(S) ==
    IF S = {} THEN <<>>
    ELSE LET x == CHOOSE y \in S : \A z \in S : Atoi(y) < Atoi(z) \/ (Atoi(y) = Atoi(z) /\ Len(y) <= Len(z))
         IN <<x>> \o AscSeq(S \ {x})

Rotate(s, r) == [j \in 1..Len(s) |-> s[((j - 1 + r) % Len(s)) + 1]]
Reverse(s) == [j \in 1..Len(s) |-> s[Len(s) + 1 - j]]

\* the orders in which `for k := range m` may visit the key set S: Go leaves
\* the order unspecified.  Every order for small maps, the rotations of the
\* ascending and descending orders for larger ones.
RangeOrders(S) ==
    IF Cardinality(S) <= MaxPermKeys
    THEN {o \in [1..Cardinality(S) -> S] : \A a, b \in 1..Cardinality(S) : a # b => o[a] # o[b]}
    ELSE LET asc == AscSeq(S)
         IN {Rotate(asc, r) : r \in 0..(Len(asc) - 1)} \cup {Rotate(Reverse(asc), r) : r \in 0..(Len(asc) - 1)}

\* ----------------------------------------------------------------- chunker

RECURSIVE LexLeq(_, _)
\* a <= b as strings, character by character
LexLeq(a, b) ==
    IF a = <<>> THEN TRUE
    ELSE IF b = <<>> THEN FALSE
    ELSE IF a[1] # b[1] THEN a[1] < b[1]
    ELSE LexLeq(Tail(a), Tail(b))

RECURSIVE LexSorted(_)
\* the strings of S in ascending string order
LexSorted(S) ==
    IF S = {} THEN <<>>
    ELSE LET x == CHOOSE y \in S : \A z \in S : LexLeq(y, z)
         IN <<x>> \o LexSorted(S \ {x})

\* mutant: the keys are sorted as strings (sort.Strings), "10" before "9"
ReassembleChunks_Lexicographic(chunks, order) ==
    LET keys == LexSorted({order[j] : j \in 1..Len(order)})
    IN Concat([j \in 1..Len(keys) |-> MapGet(chunks, keys[j], <<>>)])

\* mutant: the keys are not sorted before the pieces are joined
ReassembleChunks_Unsorted(chunks, order) ==
    Concat([j \in 1..Len(order) |-> MapGet(chunks, Itoa(Atoi(order[j])), <<>>)])

\* ReassembleChunks(chunks), with the order in which range visits the map
ReassembleChunks(chunks, order) ==
    LET keys == SortInts([j \in 1..Len(order) |-> Atoi(order[j])])
    IN Concat([j \in 1..Len(keys) |-> MapGet(chunks, Itoa(keys[j]), <<>>)])

\* ------------------------------------------------------------------ cipher
\* AES-GCM.  The key stream and the tag are symbolic: what the model keeps of
\* AES-GCM is that Seal and Open are inverse under the same key and nonce and
\* that Open rejects every body whose tag was not computed over the same
\* key, nonce and ciphertext.  The 16-byte tag is one element.

KeySize == 32
NonceSize == 12

\* the keys GenerateKey may return: 32 bytes each
Keys == {[j \in 1..KeySize |-> 1], [j \in 1..KeySize |-> 2]}

\* the nonces EncryptData may draw: 12 bytes each
Nonces == {[j \in 1..NonceSize |-> IF j = NonceSize THEN b ELSE 0] : b \in {0, 1}}

\* the key lengths aes.NewCipher accepts (AES-128, AES-192, AES-256)
AesKeySizes == {16, 24, 32}

\* key stream byte for position j
KeyStream(key, nonce, j) == (key[((j - 1) % Len(key)) + 1] + nonce[NonceSize]) % 256

RECURSIVE WeightedSum(_)
WeightedSum(s) == IF s = <<>> THEN 0 ELSE Len(s) * s[Len(s)] + WeightedSum(SubSeq(s, 1, Len(s) - 1))

RECURSIVE Radix8(_)
Radix8(s) == IF s = <<>> THEN 1 ELSE 8 * Radix8(SubSeq(s, 1, Len(s) - 1)) + (s[Len(s)] % 8)

\* the authentication tag over (key, nonce, ciphertext): one element, distinct
\* for distinct arguments within the bounds (an unforgeable tag)
Tag(key, nonce, ct) == (key[1] + Len(key) \div 16) + 8 * (WeightedSum(nonce) % 32) + 256 * Radix8(ct)

\* aesgcm.Seal(nil, nonce, plaintext, nil)
Seal(key, nonce, plaintext) ==
    LET ct == [j \in 1..Len(plaintext) |-> (plaintext[j] + KeyStream(key, nonce, j)) % 256]
    IN ct \o <<Tag(key, nonce, ct)>>

\* mutant: the nonce is not prefixed to the envelope
EncryptData_NoNonce(plaintext, key, nonce) ==
    IF Len(key) \notin AesKeySizes THEN [err |-> "KeySizeError", out |-> <<>>]
    ELSE [err |-> "", out |-> Seal(key, nonce, plaintext)]

\* mutant: the nonce read from rand.Reader is not used, the nonce is all zero
EncryptData_FixedNonce(plaintext, key, nonce) ==
    IF Len(key) \notin AesKeySizes THEN [err |-> "KeySizeError", out |-> <<>>]
    ELSE LET zero == [j \in 1..NonceSize |-> 0]
         IN [err |-> "", out |-> zero \o Seal(key, zero, plaintext)]

\* EncryptData(plaintext, key) with the nonce it read from rand.Reader
EncryptData(plaintext, key, nonce) ==
    IF Len(key) \notin AesKeySizes THEN [err |-> "KeySizeError", out |-> <<>>]
    ELSE [err |-> "", out |-> nonce \o Seal(key, nonce, plaintext)]

\* mutant: the tag is dropped without being verified
Open_Unauthenticated(key, nonce, body) ==
    IF body = <<>> THEN [err |-> "AuthenticationFailed", out |-> <<>>]
    ELSE LET ct == SubSeq(body, 1, Len(body) - 1)
         IN [err |-> "", out |-> [j \in 1..Len(ct) |-> (ct[j] + 256 - KeyStream(key, nonce, j)) % 256]]

\* aesgcm.Open(nil, nonce, ciphertext, nil)
Open(key, nonce, body) ==
    IF body = <<>> THEN [err |-> "AuthenticationFailed", out |-> <<>>]
    ELSE LET ct == SubSeq(body, 1, Len(body) - 1)
         IN IF body[Len(body)] # Tag(key, nonce, ct)
            THEN [err |-> "AuthenticationFailed", out |-> <<>>]
            ELSE [err |-> "", out |-> [j \in 1..Len(ct) |-> (ct[j] + 256 - KeyStream(key, nonce, j)) % 256]]

\* mutant: the cipher is constructed from the key before the length check
DecryptData_KeyFirst(envelope, key) ==
    IF Len(key) \notin AesKeySizes THEN [err |-> "KeySizeError", out |-> <<>>]
    ELSE IF Len(envelope) < NonceSize THEN [err |-> "TooShort", out |-> <<>>]
    ELSE Open(key, SubSeq(envelope, 1, NonceSize), SubSeq(envelope, NonceSize + 1, Len(envelope)))

\* DecryptData(encryptedData, key)
DecryptData(envelope, key) ==
    IF Len(envelope) < NonceSize THEN [err |-> "TooShort", out |-> <<>>]
    ELSE IF Len(key) \notin AesKeySizes THEN [err |-> "KeySizeError", out |-> <<>>]
    ELSE Open(key, SubSeq(envelope, 1, NonceSize), SubSeq(envelope, NonceSize + 1, Len(envelope)))

\* ------------------------------------------------------------------ base64
\* characters of a base64 string are the sextet values 0..63; 64 is '='

RECURSIVE EncodeToString(_)
\* base64.StdEncoding.EncodeToString
EncodeToString(b) ==
    IF b = <<>> THEN <<>>
    ELSE IF Len(b) = 1 THEN <<b[1] \div 4, (b[1] % 4) * 16, 64, 64>>
    ELSE IF Len(b) = 2 THEN <<b[1] \div 4, (b[1] % 4) * 16 + b[2] \div 16, (b[2] % 16) * 4, 64>>
    ELSE <<b[1] \div 4, (b[1] % 4) * 16 + b[2] \div 16, (b[2] % 16) * 4 + b[3] \div 64, b[3] % 64>>
             \o EncodeToString(SubSeq(b, 4, Len(b)))

RECURSIVE DecodeString(_)
\* base64.StdEncoding.DecodeString: an error unless the input is whole
\* quanta of valid characters, padded only at the end
DecodeString(s) ==
    IF s = <<>> THEN [err |-> "", out |-> <<>>]
    ELSE IF Len(s) < 4 \/ s[1] \notin 0..63 \/ s[2] \notin 0..63 THEN [err |-> "CorruptInput", out |-> <<>>]
    ELSE LET b1 == s[1] * 4 + s[2] \div 16
             b2 == (s[2] % 16) * 16 + s[3] \div 4
             b3 == (s[3] % 4) * 64 + s[4]
             rest == DecodeString(SubSeq(s, 5, Len(s)))
         IN IF s[3] \in 0..63 /\ s[4] \in 0..63
            THEN IF rest.err # "" THEN rest ELSE [err |-> "", out |-> <<b1, b2, b3>> \o rest.out]
            ELSE IF Len(s) = 4 /\ s[3] \in 0..63 /\ s[4] = 64 THEN [err |-> "", out |-> <<b1, b2>>]
            ELSE IF Len(s) = 4 /\ s[3] = 64 /\ s[4] = 64 THEN [err |-> "", out |-> <<b1>>]
            ELSE [err |-> "CorruptInput", out |-> <<>>]

\* ---------------------------------------------------------------- manifest

\* the empty string as an object-store reference
NoRef == <<>>

\* the zero value of finalride.Metadata
ZeroMetadata ==
    [Filename |-> "", Encrypted |-> FALSE, Key |-> <<>>, Chunked |-> FALSE,
     FileID |-> NoRef, ChunkIDs |-> EmptyMap, ChunkHashes |-> EmptyMap, FileHash |-> NoHash]

\* the json tags of Metadata that carry omitempty
OmitEmpty == {"key", "file_id", "chunk_ids", "chunk_hashes", "file_hash"}

\* mutant: every field is written, empty or not (no omitempty)
Marshal_NoOmitEmpty(m) ==
    [filename |-> m.Filename, encrypted |-> m.Encrypted, key |-> m.Key,
     chunked |-> m.Chunked, file_id |-> m.FileID, chunk_ids |-> m.ChunkIDs,
     chunk_hashes |-> m.ChunkHashes, file_hash |-> m.FileHash]

\* json.Marshal(metadata): the document holds a field unless it is tagged
\* omitempty and empty (empty string, nil or empty map)
Marshal(m) ==
    LET j == [filename |-> m.Filename, encrypted |-> m.Encrypted, key |-> m.Key,
              chunked |-> m.Chunked, file_id |-> m.FileID, chunk_ids |-> m.ChunkIDs,
              chunk_hashes |-> m.ChunkHashes, file_hash |-> m.FileHash]
    IN [f \in {g \in DOMAIN j : g \notin OmitEmpty \/ j[g] # <<>>} |-> j[f]]

\* json.Unmarshal(doc, &metadata) into a zero Metadata: a field the document
\* does not hold keeps its zero value
Unmarshal(doc) ==
    [Filename |-> IF "filename" \in DOMAIN doc THEN doc.filename ELSE "",
     Encrypted |-> IF "encrypted" \in DOMAIN doc THEN doc.encrypted ELSE FALSE,
     Key |-> IF "key" \in DOMAIN doc THEN doc.key ELSE <<>>,
     Chunked |-> IF "chunked" \in DOMAIN doc THEN doc.chunked ELSE FALSE,
     FileID |-> IF "file_id" \in DOMAIN doc THEN doc.file_id ELSE NoRef,
     ChunkIDs |-> IF "chunk_ids" \in DOMAIN doc THEN doc.chunk_ids ELSE EmptyMap,
     ChunkHashes |-> IF "chunk_hashes" \in DOMAIN doc THEN doc.chunk_hashes ELSE EmptyMap,
     FileHash |-> IF "file_hash" \in DOMAIN doc THEN doc.file_hash ELSE NoHash]

\* ------------------------------------------------------------ object store
\* A blob is raw bytes or a JSON document.

RawBlob(b) == [kind |-> "raw", raw |-> b, doc |-> <<>>]
JsonBlob(d) == [kind |-> "json", raw |-> <<>>, doc |-> d]

\* The store is content-addressed: the reference of a blob is a digest of
\* its content, here the content itself, wrapped; the store is the set of
\* the blobs uploaded.
RefOf(blob) == <<blob>>
Refs(st) == {RefOf(b) : b \in st}
Stored(st, ref) == ref[1]

\* UploadToSwarm(data, api) when the gateway answers 201: the store after the
\* upload and the reference returned
UploadToSwarm(st, blob) == [store |-> st \cup {blob}, ref |-> RefOf(blob)]

\* ------------------------------------------------------------------- state

VARIABLES
    prog,            \* the program that runs
    pc,              \* its control location
    \* SplitIntoChunks(data, chunkSize): parameters and locals
    data, chunkSize, i, chunkNum, chunks, hashes,
    \* TestChunkingReassembly
    reassembled,
    \* the library calls completed so far, each with its arguments and result
    calls,
    \* TestEncryptionDecryption (plaintext and key also: cli upload)
    plaintext, key, encrypted, decInput, decKey, decrypted,
    \* further calls of EncryptData(plaintext, key): the nonce rand.Reader
    \* returned to each and its output
    trials,
    \* the environment of the cli: config.yaml, os.Args, the file to upload,
    \* the object store, the files written, and what the process printed last
    config, osArgs, inputFile, store, files, exitMsg,
    \* cli upload
    dataToUpload, metadata, chunkIDs, metadataCID,
    \* cli download
    dlMetadata, downloadedChunks, downloadedData, finalData,
    \* history: every fetch of the download so far returned the stored blob;
    \* the events of the run (library functions invoked, failures met); the
    \* references the download has asked the store for
    honest, history, fetched,
    \* cmd/gui: the shared application state with its lock (appState.mu: the
    \* goroutine that holds it), the lock of the shared config, and the
    \* goroutines with their control locations and locals
    appState, configMu, goroutines,
    \* history of cmd/gui: the accesses to fields of config made without
    \* configMu held; the number of uploads that have passed the guard
    unguarded, started

splitVars == <<data, chunkSize, i, chunkNum, chunks, hashes>>
cryptoVars == <<plaintext, key, encrypted, decInput, decKey, decrypted, trials>>
envVars == <<config, osArgs, inputFile, store, files, exitMsg>>
upVars == <<dataToUpload, metadata, chunkIDs, metadataCID>>
downVars == <<dlMetadata, downloadedChunks, downloadedData, finalData, honest, history, fetched>>
cliVars == <<envVars, upVars, downVars>>
guiVars == <<appState, configMu, goroutines, unguarded, started>>
vars == <<prog, pc, splitVars, reassembled, calls, cryptoVars, cliVars, guiVars>>

\* the cli variables while another program runs
CliUnused ==
    /\ config = [ChunkSizeMB |-> 0, EncryptDefault |-> FALSE]
    /\ osArgs = [action |-> "", arg |-> <<>>, flags |-> {}]
    /\ inputFile = [path |-> <<>>, content |-> <<>>]
    /\ store = {}
    /\ files = EmptyMap
    /\ exitMsg = ""
    /\ dataToUpload = <<>>
    /\ metadata = ZeroMetadata
    /\ chunkIDs = EmptyMap
    /\ metadataCID = NoRef
    /\ dlMetadata = ZeroMetadata
    /\ downloadedChunks = EmptyMap
    /\ downloadedData = <<>>
    /\ finalData = <<>>
    /\ honest = TRUE
    /\ history = {}
    /\ fetched = {}

\* the gui variables while another program runs
GuiUnused ==
    /\ appState = <<>>
    /\ configMu = ""
    /\ goroutines = <<>>
    /\ unguarded = {}
    /\ started = 0

NoResult == [err |-> "none", out |-> <<>>]

\* ------------------------------------------ SplitIntoChunks, step by step

\* mutant: chunkNum is not a local of the call, it goes on from the call before
SplitCall_KeepsCounter(d, size) ==
    /\ data' = d
    /\ chunkSize' = size
    /\ i' = 0
    /\ chunkNum' = chunkNum
    /\ chunks' = EmptyMap
    /\ hashes' = EmptyMap

\* entry: chunks, hashes := make(...), chunkNum := 1, i := 0
SplitCall(d, size) ==
    /\ data' = d
    /\ chunkSize' = size
    /\ i' = 0
    /\ chunkNum' = 1
    /\ chunks' = EmptyMap
    /\ hashes' = EmptyMap

\* where SplitIntoChunks returns to
SplitReturnTo ==
    IF prog = "chunktest" THEN "reassemble"
    ELSE IF prog = "puretest" THEN "splitdone"
    ELSE "uploadChunks"

\* mutant: the piece is keyed by its byte offset and its digest is taken
\* over the payload
SplitLoop_OffsetKeys ==
    /\ pc = "split"
    /\ i < Len(data)
    /\ chunkNum <= MaxIter
    /\ LET end == Min(i + chunkSize, Len(data))
       IN IF end < i
          THEN /\ pc' = "panic"
               /\ UNCHANGED <<i, chunkNum, chunks, hashes>>
          ELSE LET chunk == SubSeq(data, i + 1, end)
                   chunkKey == Itoa(i)
               IN /\ chunks' = MapPut(chunks, chunkKey, chunk)
                  /\ hashes' = MapPut(hashes, chunkKey, Sha256Hex(data))
                  /\ chunkNum' = chunkNum + 1
                  /\ i' = i + chunkSize
                  /\ pc' = "split"
    /\ UNCHANGED <<cliVars, prog, guiVars, data, chunkSize, reassembled, calls, cryptoVars>>

\* one iteration of `for i := 0; i < len(data); i += chunkSize`
SplitLoop ==
    /\ pc = "split"
    /\ i < Len(data)
    /\ chunkNum <= MaxIter
    /\ LET end == Min(i + chunkSize, Len(data))
       IN IF end < i
          THEN \* data[i:end] with end < i: slice bounds out of range
               /\ pc' = "panic"
               /\ UNCHANGED <<i, chunkNum, chunks, hashes>>
          ELSE LET chunk == SubSeq(data, i + 1, end)
                   chunkKey == Itoa(chunkNum)
               IN /\ chunks' = MapPut(chunks, chunkKey, chunk)
                  /\ hashes' = MapPut(hashes, chunkKey, Sha256Hex(chunk))
                  /\ chunkNum' = chunkNum + 1
                  /\ i' = i + chunkSize
                  /\ pc' = "split"
    /\ UNCHANGED <<cliVars, prog, guiVars, data, chunkSize, reassembled, calls, cryptoVars>>

\* mutant: the loop is left after its first iteration
SplitReturn_Early ==
    /\ pc = "split"
    /\ (i > 0 \/ ~(i < Len(data)))
    /\ pc' = SplitReturnTo
    /\ UNCHANGED <<cliVars, prog, guiVars, splitVars, reassembled, calls, cryptoVars>>

\* the loop condition fails: return chunks, hashes
SplitReturn ==
    /\ pc = "split"
    /\ ~(i < Len(data))
    /\ pc' = SplitReturnTo
    /\ UNCHANGED <<cliVars, prog, guiVars, splitVars, reassembled, calls, cryptoVars>>

\* ------------------------------------------------ TestChunkingReassembly

\* chunk sizes the test harness draws: negative, zero, below, at and above
\* the payload length
TestChunkSizes == (0 - 1)..(MaxLen + 1)

ChunkTestInit ==
    /\ prog = "chunktest"
    /\ pc = "split"
    /\ data \in BSeq(Byte, MaxLen)
    /\ chunkSize \in TestChunkSizes
    /\ i = 0
    /\ chunkNum = 1
    /\ chunks = EmptyMap
    /\ hashes = EmptyMap
    /\ reassembled = <<>>
    /\ calls = <<>>
    /\ plaintext = <<>>
    /\ key = <<>>
    /\ encrypted = NoResult
    /\ decInput = <<>>
    /\ decKey = <<>>
    /\ decrypted = NoResult
    /\ trials = <<>>
    /\ CliUnused
    /\ GuiUnused

\* reassembled := ReassembleChunks(chunks)
TestReassemble ==
    /\ prog = "chunktest"
    /\ pc = "reassemble"
    /\ \E order \in RangeOrders(DOMAIN chunks) :
           reassembled' = ReassembleChunks(chunks, order)
    /\ pc' = "testdone"
    /\ UNCHANGED <<cliVars, prog, guiVars, splitVars, calls, cryptoVars>>

ChunkTestNext == SplitLoop \/ SplitReturn \/ TestReassemble

ChunkTestSpec == ChunkTestInit /\ [][ChunkTestNext]_vars

\* --------------------------------------- ReassembleChunks on any piece map
\* ReassembleChunks called on piece maps a ten-piece split and more would
\* give, which the bounded payloads of TestChunkingReassembly do not reach

\* piece identifiers of one and of two digits
PieceKeys == {Itoa(1), Itoa(2), Itoa(9), Itoa(10), Itoa(11)}

\* the piece maps over any of the identifiers, one byte per piece
PieceMaps == UNION {[K -> {<<b>> : b \in Byte}] : K \in SUBSET PieceKeys}

ReassembleTestInit ==
    /\ prog = "reassembletest"
    /\ pc = "reassemble"
    /\ chunks \in PieceMaps
    /\ data = <<>>
    /\ chunkSize = 0
    /\ i = 0
    /\ chunkNum = 1
    /\ hashes = EmptyMap
    /\ reassembled = <<>>
    /\ calls = <<>>
    /\ plaintext = <<>>
    /\ key = <<>>
    /\ encrypted = NoResult
    /\ decInput = <<>>
    /\ decKey = <<>>
    /\ decrypted = NoResult
    /\ trials = <<>>
    /\ CliUnused
    /\ GuiUnused

\* reassembled := ReassembleChunks(chunks), range visiting the keys in any order
ReassembleCall ==
    /\ prog = "reassembletest"
    /\ pc = "reassemble"
    /\ \E order \in RangeOrders(DOMAIN chunks) :
           reassembled' = ReassembleChunks(chunks, order)
    /\ pc' = "testdone"
    /\ UNCHANGED <<cliVars, prog, guiVars, splitVars, calls, cryptoVars>>

ReassembleTestSpec == ReassembleTestInit /\ [][ReassembleCall]_vars

\* ---------------------------------------------- TestEncryptionDecryption

\* keys of a length aes.NewCipher rejects; the empty key is what a manifest
\* without key material decodes to
BadKeys == {<<>>, [j \in 1..(KeySize - 1) |-> 1]}

\* a valid AES-128 key, which GenerateKey never returns
OtherKeys == {[j \in 1..16 |-> 1]}

\* b with position j replaced by another byte value
Flip(b, j) == [b EXCEPT ![j] = (b[j] + 1) % 256]

\* envelopes other than e that a decryption may be handed: one position
\* changed, truncated, extended, and the short strings
Tampered(e) ==
    {Flip(e, j) : j \in 1..Len(e)}
        \cup {SubSeq(e, 1, n) : n \in 0..(Len(e) - 1)}
        \cup {e \o <<0>>}

CryptoTestInit ==
    /\ prog = "cryptotest"
    /\ pc = "genkey"
    /\ plaintext \in BSeq(Byte, MaxLen)
    /\ key = <<>>
    /\ encrypted = NoResult
    /\ decInput = <<>>
    /\ decKey = <<>>
    /\ decrypted = NoResult
    /\ trials = <<>>
    /\ data = <<>>
    /\ chunkSize = 0
    /\ i = 0
    /\ chunkNum = 1
    /\ chunks = EmptyMap
    /\ hashes = EmptyMap
    /\ reassembled = <<>>
    /\ calls = <<>>
    /\ CliUnused
    /\ GuiUnused

\* key, err := GenerateKey()
TestGenerateKey ==
    /\ prog = "cryptotest"
    /\ pc = "genkey"
    /\ key' \in Keys
    /\ pc' = "encrypt"
    /\ UNCHANGED <<cliVars, prog, guiVars, splitVars, reassembled, calls, plaintext, encrypted, decInput, decKey, decrypted, trials>>

\* encrypted, err := EncryptData(plaintext, key)
TestEncrypt ==
    /\ prog = "cryptotest"
    /\ pc = "encrypt"
    /\ \E nonce \in Nonces : encrypted' = EncryptData(plaintext, key, nonce)
    /\ pc' = "decrypt"
    /\ UNCHANGED <<cliVars, prog, guiVars, splitVars, reassembled, calls, plaintext, key, decInput, decKey, decrypted, trials>>

\* decrypted, err := DecryptData(e, k) for the envelope and key of the test
\* and for every other envelope and key within the bounds
TestDecrypt ==
    /\ prog = "cryptotest"
    /\ pc = "decrypt"
    /\ \E e \in {encrypted.out} \cup Tampered(encrypted.out), k \in Keys \cup OtherKeys \cup BadKeys :
           /\ decInput' = e
           /\ decKey' = k
           /\ decrypted' = DecryptData(e, k)
    /\ pc' = "testdone"
    /\ UNCHANGED <<cliVars, prog, guiVars, splitVars, reassembled, calls, plaintext, key, encrypted, trials>>

\* one more call EncryptData(plaintext, key), with the same plaintext and
\* key; rand.Reader returns any nonce, one returned before included
TestEncryptTrial ==
    /\ prog = "cryptotest"
    /\ pc \in {"decrypt", "trials"}
    /\ Len(trials) < MaxTrials
    /\ \E nonce \in Nonces :
           trials' = Append(trials, [nonce |-> nonce, out |-> EncryptData(plaintext, key, nonce).out])
    /\ pc' = "trials"
    /\ UNCHANGED <<cliVars, prog, guiVars, splitVars, reassembled, calls, plaintext, key, encrypted, decInput, decKey, decrypted>>

CryptoTestNext == TestGenerateKey \/ TestEncrypt \/ TestDecrypt \/ TestEncryptTrial

CryptoTestSpec == CryptoTestInit /\ [][CryptoTestNext]_vars

\* --------------------------------------------- the download argument
\* The argument of a download is a string of symbols: a reference is one
\* symbol (the blob it addresses), and there is one symbol for the text
\* `download=`, one for `&` and one for any other run of text.

Sym(t) == [kind |-> t, raw |-> <<>>, doc |-> <<>>]
DownloadEq == Sym("download=")
Amp == Sym("&")

\* the shareable URLs of a reference: download_link with the reference in
\* place of %s, as it is and with a further query parameter
ShareUrls(cid) ==
    LET link == <<Sym("http://localhost:8080?"), DownloadEq>> \o cid
    IN {link, link \o <<Amp, Sym("t=1")>>}

\* strings.Contains(s, sep)
Contains(s, sep) == \E j \in 1..Len(s) : s[j] = sep

RECURSIVE Split(_, _)
\* strings.Split(s, sep): the substrings between the occurrences of sep
Split(s, sep) ==
    IF ~Contains(s, sep) THEN <<s>>
    ELSE LET j == CHOOSE x \in 1..Len(s) : s[x] = sep /\ \A y \in 1..(x - 1) : s[y] # sep
         IN <<SubSeq(s, 1, j - 1)>> \o Split(SubSeq(s, j + 1, Len(s)), sep)

\* the URL extraction of the cli: the text after the first `download=` up to
\* the next `&`, or the argument itself
ExtractCid(arg) ==
    IF Contains(arg, DownloadEq)
    THEN LET parts == Split(arg, DownloadEq)
         IN IF Len(parts) > 1 THEN Split(parts[2], Amp)[1] ELSE arg
    ELSE arg

\* ------------------------------------------------------- cmd/cli: upload

\* chunk_size_mb values of config.yaml: negative, missing (0) and positive
ConfigChunkSizesMB == {0 - 1, 0, 1, 2, 8}

\* the path of the file to upload, as its components
UploadPath == <<"docs", "a.txt">>

\* filepath.Base
Base(path) == IF path = <<>> THEN "." ELSE path[Len(path)]

\* chunkSizeBytes := config.ChunkSizeMB * 1024 * 1024
chunkSizeBytes == config.ChunkSizeMB * MiB

\* hasFlag(os.Args, flag)
hasFlag(args, flag) == flag \in args.flags

CliInit ==
    /\ prog = "cli"
    /\ pc = "main"
    /\ config \in [ChunkSizeMB : ConfigChunkSizesMB, EncryptDefault : BOOLEAN]
    /\ osArgs \in [action : {"upload"}, arg : {UploadPath}, flags : SUBSET {"--encrypt", "--no-encrypt"}]
    /\ inputFile \in [path : {UploadPath}, content : BSeq(Byte, MaxLen)]
    /\ store = {}
    /\ files = EmptyMap
    /\ exitMsg = ""
    /\ dataToUpload = <<>>
    /\ metadata = ZeroMetadata
    /\ chunkIDs = EmptyMap
    /\ metadataCID = NoRef
    /\ dlMetadata = ZeroMetadata
    /\ downloadedChunks = EmptyMap
    /\ downloadedData = <<>>
    /\ finalData = <<>>
    /\ honest = TRUE
    /\ history = {}
    /\ fetched = {}
    /\ data = <<>>
    /\ chunkSize = 0
    /\ i = 0
    /\ chunkNum = 1
    /\ chunks = EmptyMap
    /\ hashes = EmptyMap
    /\ reassembled = <<>>
    /\ calls = <<>>
    /\ plaintext = <<>>
    /\ key = <<>>
    /\ encrypted = NoResult
    /\ decInput = <<>>
    /\ decKey = <<>>
    /\ decrypted = NoResult
    /\ trials = <<>>
    /\ GuiUnused

\* log.Fatalf(msg): the process prints msg and exits with status 1
Fatal(msg) ==
    /\ pc' = "fatal"
    /\ exitMsg' = msg

\* shouldEncrypt, from the config default and the flags
ShouldEncrypt ==
    IF hasFlag(osArgs, "--no-encrypt") THEN FALSE
    ELSE IF hasFlag(osArgs, "--encrypt") THEN TRUE
    ELSE config.EncryptDefault

\* mutant: a payload as long as the threshold is split as well
CliUploadStart_SplitsAtThreshold ==
    /\ prog = "cli"
    /\ pc = "main"
    /\ osArgs.action = "upload"
    /\ plaintext' = inputFile.content
    /\ \E k \in Keys, nonce \in Nonces :
          LET enc == EncryptData(inputFile.content, k, nonce)
              d == IF ShouldEncrypt THEN enc.out ELSE inputFile.content
          IN /\ key' = IF ShouldEncrypt THEN k ELSE <<>>
             /\ dataToUpload' = d
             /\ metadata' = [ZeroMetadata EXCEPT
                                !.Filename = Base(osArgs.arg),
                                !.Encrypted = ShouldEncrypt,
                                !.Key = IF ShouldEncrypt THEN EncodeToString(k) ELSE <<>>]
             /\ IF Len(d) >= chunkSizeBytes
                THEN /\ SplitCall(d, chunkSizeBytes)
                     /\ pc' = "split"
                ELSE /\ UNCHANGED splitVars
                     /\ pc' = "uploadFile"
    /\ UNCHANGED <<prog, guiVars, reassembled, calls, encrypted, decInput, decKey, decrypted, trials, envVars,
                   chunkIDs, metadataCID, downVars>>

\* case "upload", up to the chunking decision: read the file, encrypt it if
\* asked to, and either call SplitIntoChunks or go on to the single upload
CliUploadStart ==
    /\ prog = "cli"
    /\ pc = "main"
    /\ osArgs.action = "upload"
    /\ plaintext' = inputFile.content
    /\ \E k \in Keys, nonce \in Nonces :
          LET enc == EncryptData(inputFile.content, k, nonce)
              d == IF ShouldEncrypt THEN enc.out ELSE inputFile.content
          IN /\ key' = IF ShouldEncrypt THEN k ELSE <<>>
             /\ dataToUpload' = d
             /\ metadata' = [ZeroMetadata EXCEPT
                                !.Filename = Base(osArgs.arg),
                                !.Encrypted = ShouldEncrypt,
                                !.Key = IF ShouldEncrypt THEN EncodeToString(k) ELSE <<>>]
             /\ IF Len(d) > chunkSizeBytes
                THEN /\ SplitCall(d, chunkSizeBytes)
                     /\ pc' = "split"
                ELSE /\ UNCHANGED splitVars
                     /\ pc' = "uploadFile"
    /\ UNCHANGED <<prog, guiVars, reassembled, calls, encrypted, decInput, decKey, decrypted, trials, envVars,
                   chunkIDs, metadataCID, downVars>>

\* mutant: the error of UploadToSwarm is dropped and the loop goes on
OnChunkUploadError_Ignored(k) ==
    /\ chunkIDs' = MapPut(chunkIDs, k, NoRef)
    /\ UNCHANGED <<pc, exitMsg>>

\* if err != nil { log.Fatalf("Failed to upload chunk %s", k) }
OnChunkUploadError(k) ==
    /\ Fatal("Failed to upload chunk")
    /\ UNCHANGED chunkIDs

\* one iteration of `for k, chunk := range chunks`: any key not yet visited;
\* the upload succeeds or fails
CliUploadChunk ==
    /\ prog = "cli"
    /\ pc = "uploadChunks"
    /\ \E k \in (DOMAIN chunks) \ (DOMAIN chunkIDs) :
          \/ LET up == UploadToSwarm(store, RawBlob(chunks[k]))
             IN /\ store' = up.store
                /\ chunkIDs' = MapPut(chunkIDs, k, up.ref)
                /\ UNCHANGED <<pc, exitMsg, history>>
          \/ /\ history' = history \cup {"ChunkUploadFailed"}
             /\ OnChunkUploadError(k)
             /\ UNCHANGED store
    /\ UNCHANGED <<prog, guiVars, splitVars, reassembled, calls, cryptoVars, config, osArgs, inputFile, files,
                   dataToUpload, metadata, metadataCID,
                   dlMetadata, downloadedChunks, downloadedData, finalData, honest, fetched>>

\* the range loop is over: metadata.Chunked = true, ChunkIDs, ChunkHashes
CliUploadChunksDone ==
    /\ prog = "cli"
    /\ pc = "uploadChunks"
    /\ DOMAIN chunks = DOMAIN chunkIDs
    /\ metadata' = [metadata EXCEPT !.Chunked = TRUE, !.ChunkIDs = chunkIDs, !.ChunkHashes = hashes]
    /\ pc' = "uploadMetadata"
    /\ UNCHANGED <<prog, guiVars, splitVars, reassembled, calls, cryptoVars, envVars,
                   dataToUpload, chunkIDs, metadataCID, downVars>>

\* mutant: the digest recorded is that of the file as read
CliUploadFile_HashesPlaintext ==
    /\ prog = "cli"
    /\ pc = "uploadFile"
    /\ \/ LET up == UploadToSwarm(store, RawBlob(dataToUpload))
          IN /\ store' = up.store
             /\ metadata' = [metadata EXCEPT !.Chunked = FALSE, !.FileID = up.ref,
                                             !.FileHash = Sha256Hex(plaintext)]
             /\ pc' = "uploadMetadata"
             /\ UNCHANGED exitMsg
       \/ /\ Fatal("Failed to upload file")
          /\ UNCHANGED <<store, metadata>>
    /\ UNCHANGED <<prog, guiVars, splitVars, reassembled, calls, cryptoVars, config, osArgs, inputFile, files,
                   dataToUpload, chunkIDs, metadataCID, downVars>>

\* the single upload: FileID and FileHash of dataToUpload
CliUploadFile ==
    /\ prog = "cli"
    /\ pc = "uploadFile"
    /\ \/ LET up == UploadToSwarm(store, RawBlob(dataToUpload))
          IN /\ store' = up.store
             /\ metadata' = [metadata EXCEPT !.Chunked = FALSE, !.FileID = up.ref,
                                             !.FileHash = Sha256Hex(dataToUpload)]
             /\ pc' = "uploadMetadata"
             /\ UNCHANGED exitMsg
       \/ /\ Fatal("Failed to upload file")
          /\ UNCHANGED <<store, metadata>>
    /\ UNCHANGED <<prog, guiVars, splitVars, reassembled, calls, cryptoVars, config, osArgs, inputFile, files,
                   dataToUpload, chunkIDs, metadataCID, downVars>>

\* json.MarshalIndent(metadata) and its upload; the reference is printed
CliUploadMetadata ==
    /\ prog = "cli"
    /\ pc = "uploadMetadata"
    /\ \/ LET up == UploadToSwarm(store, JsonBlob(Marshal(metadata)))
          IN /\ store' = up.store
             /\ metadataCID' = up.ref
             /\ pc' = "exit"
             /\ exitMsg' = "UPLOAD SUCCESSFUL!"
       \/ /\ Fatal("Failed to upload metadata")
          /\ UNCHANGED <<store, metadataCID>>
    /\ UNCHANGED <<prog, guiVars, splitVars, reassembled, calls, cryptoVars, config, osArgs, inputFile, files,
                   dataToUpload, metadata, chunkIDs, downVars>>

\* ----------------------------------------------------- cmd/cli: download

\* the references a crafted manifest names: the shortest raw blobs of the store
CraftRefs(st) ==
    LET raws == {b \in st : b.kind = "raw"}
    IN {RefOf(b) : b \in {c \in raws : \A e \in raws : Len(c.raw) <= Len(e.raw)}}

\* the reference of a blob that no upload of the model stores
UnstoredRef == RefOf(RawBlob(<<2>>))

\* manifests the untrusted gateway may answer with instead of the stored one
CraftedManifests(st) ==
    \* chunked, without chunk_ids
    {[filename |-> "x.bin", encrypted |-> FALSE, chunked |-> TRUE]}
    \* encrypted, without key
    \cup {[filename |-> "x.bin", encrypted |-> TRUE, chunked |-> FALSE,
           file_id |-> r, file_hash |-> Sha256Hex(Stored(st, r).raw)] : r \in CraftRefs(st)}
    \* chunked, a chunk without chunk_hashes entry
    \cup {[filename |-> "x.bin", encrypted |-> FALSE, chunked |-> TRUE,
           chunk_ids |-> [k \in {Itoa(1)} |-> r]] : r \in CraftRefs(st)}
    \* chunked, consistent
    \cup {[filename |-> "x.bin", encrypted |-> FALSE, chunked |-> TRUE,
           chunk_ids |-> [k \in {Itoa(1), Itoa(2)} |-> r],
           chunk_hashes |-> [k \in {Itoa(1), Itoa(2)} |-> Sha256Hex(Stored(st, r).raw)]] : r \in CraftRefs(st)}
    \* chunked, consistent, under the keys "01" and "x"
    \cup {[filename |-> "x.bin", encrypted |-> FALSE, chunked |-> TRUE,
           chunk_ids |-> [k \in {<<0, 1>>, <<Chars.letter>>} |-> r],
           chunk_hashes |-> [k \in {<<0, 1>>, <<Chars.letter>>} |-> Sha256Hex(Stored(st, r).raw)]] : r \in CraftRefs(st)}
    \* both the chunk fields and the single-file fields, chunked or not: the
    \* set that `chunked` selects names a stored blob, the other set another
    \* reference
    \cup {[filename |-> "x.bin", encrypted |-> FALSE, chunked |-> TRUE,
           chunk_ids |-> [k \in {Itoa(1)} |-> r],
           chunk_hashes |-> [k \in {Itoa(1)} |-> Sha256Hex(Stored(st, r).raw)],
           file_id |-> UnstoredRef, file_hash |-> Sha256Hex(Stored(st, UnstoredRef).raw)] :
              r \in CraftRefs(st)}
    \cup {[filename |-> "x.bin", encrypted |-> FALSE, chunked |-> FALSE,
           chunk_ids |-> [k \in {Itoa(1)} |-> UnstoredRef],
           chunk_hashes |-> [k \in {Itoa(1)} |-> Sha256Hex(Stored(st, UnstoredRef).raw)],
           file_id |-> r, file_hash |-> Sha256Hex(Stored(st, r).raw)] :
              r \in CraftRefs(st)}

\* bytes other than b that the untrusted gateway may answer with
Corrupt(b) == IF b = <<>> THEN <<0>> ELSE Flip(b, 1)

\* DownloadFromSwarm(reference, api): an error (no such reference, or the
\* gateway fails), the stored blob, or another blob
DownloadFromSwarm(st, ref) ==
    {[err |-> "http", blob |-> RawBlob(<<>>), genuine |-> ref \notin Refs(st)]}
        \cup (IF ref \in Refs(st)
              THEN {[err |-> "", blob |-> Stored(st, ref), genuine |-> TRUE]}
                       \cup (IF Stored(st, ref).kind = "raw"
                             THEN {[err |-> "", blob |-> RawBlob(Corrupt(Stored(st, ref).raw)), genuine |-> FALSE]}
                             ELSE {[err |-> "", blob |-> JsonBlob(d), genuine |-> FALSE] : d \in CraftedManifests(st)})
              ELSE {})

\* what a download is started with: the reference of any blob of the store,
\* or a shareable URL of the manifest reference the upload printed
DownloadArgs == Refs(store) \cup ShareUrls(metadataCID)

\* a later run, after the upload has printed its reference: the cli's
\* `download <arg>`, or the Download button of the gui, performDownload(arg)
CliInvokeDownload ==
    /\ prog = "cli"
    /\ pc = "exit"
    /\ osArgs.action = "upload"
    /\ \E arg \in DownloadArgs :
          \/ osArgs' = [action |-> "download", arg |-> arg, flags |-> {}]
          \/ /\ arg \in {metadataCID} \cup ShareUrls(metadataCID)
             /\ osArgs' = [action |-> "performDownload", arg |-> arg, flags |-> {}]
    /\ pc' = "main"
    /\ exitMsg' = ""
    /\ UNCHANGED <<prog, guiVars, splitVars, reassembled, calls, cryptoVars, config, inputFile, store, files,
                   upVars, downVars>>

\* mutant: a manifest with a file_id is taken as a single-blob manifest
CliDownloadMetadata_PrefersFileID ==
    /\ prog = "cli"
    /\ pc = "main"
    /\ osArgs.action = "download"
    /\ fetched' = fetched \cup {ExtractCid(osArgs.arg)}
    /\ \E r \in DownloadFromSwarm(store, ExtractCid(osArgs.arg)) :
          /\ honest' = (honest /\ r.genuine)
          /\ IF r.err # ""
             THEN /\ Fatal("Failed to download metadata")
                  /\ UNCHANGED dlMetadata
             ELSE IF r.blob.kind # "json"
             THEN /\ Fatal("Failed to parse metadata")
                  /\ UNCHANGED dlMetadata
             ELSE /\ dlMetadata' = Unmarshal(r.blob.doc)
                  /\ pc' = IF dlMetadata'.FileID = NoRef /\ dlMetadata'.Chunked
                           THEN "downloadChunks" ELSE "downloadFile"
                  /\ UNCHANGED exitMsg
    /\ UNCHANGED <<prog, guiVars, splitVars, reassembled, calls, cryptoVars, config, osArgs, inputFile, store, files,
                   upVars, downloadedChunks, downloadedData, finalData, history>>

\* case "download": fetch and parse the manifest
CliDownloadMetadata ==
    /\ prog = "cli"
    /\ pc = "main"
    /\ osArgs.action = "download"
    /\ fetched' = fetched \cup {ExtractCid(osArgs.arg)}
    /\ \E r \in DownloadFromSwarm(store, ExtractCid(osArgs.arg)) :
          /\ honest' = (honest /\ r.genuine)
          /\ IF r.err # ""
             THEN /\ Fatal("Failed to download metadata")
                  /\ UNCHANGED dlMetadata
             ELSE IF r.blob.kind # "json"
             THEN /\ Fatal("Failed to parse metadata")
                  /\ UNCHANGED dlMetadata
             ELSE /\ dlMetadata' = Unmarshal(r.blob.doc)
                  /\ pc' = IF dlMetadata'.Chunked THEN "downloadChunks" ELSE "downloadFile"
                  /\ UNCHANGED exitMsg
    /\ UNCHANGED <<prog, guiVars, splitVars, reassembled, calls, cryptoVars, config, osArgs, inputFile, store, files,
                   upVars, downloadedChunks, downloadedData, finalData, history>>

\* cmd/gui performDownload(cid), up to the parsed manifest: the text of the
\* input field is handed to DownloadFromSwarm as it is; an error is logged
\* and performDownload returns.  The rest of performDownload is not followed.
GuiDownloadMetadata ==
    /\ prog = "cli"
    /\ pc = "main"
    /\ osArgs.action = "performDownload"
    /\ fetched' = fetched \cup {osArgs.arg}
    /\ \E r \in DownloadFromSwarm(store, osArgs.arg) :
          /\ honest' = (honest /\ r.genuine)
          /\ IF r.err # ""
             THEN /\ Fatal("ERROR metadata download")
                  /\ UNCHANGED dlMetadata
             ELSE IF r.blob.kind # "json"
             THEN /\ Fatal("ERROR parse metadata")
                  /\ UNCHANGED dlMetadata
             ELSE /\ dlMetadata' = Unmarshal(r.blob.doc)
                  /\ pc' = "guiParsed"
                  /\ UNCHANGED exitMsg
    /\ UNCHANGED <<prog, guiVars, splitVars, reassembled, calls, cryptoVars, config, osArgs, inputFile, store, files,
                   upVars, downloadedChunks, downloadedData, finalData, history>>

\* mutant: no comparison of the digests
IntegrityOk_Always(expectedHash, hash) == TRUE

\* mutant: a chunk without recorded digest is not verified
IntegrityOk_UnlessRecorded(expectedHash, hash) == expectedHash = NoHash \/ expectedHash = hash

\* the integrity test: expectedHash != fmt.Sprintf("%x", hash) is fatal
IntegrityOk(expectedHash, hash) == expectedHash = hash

\* one iteration of `for k, reference := range metadata.ChunkIDs`: fetch the
\* chunk, compare its digest with metadata.ChunkHashes[k], keep it
CliDownloadChunk ==
    /\ prog = "cli"
    /\ pc = "downloadChunks"
    /\ \E k \in (DOMAIN dlMetadata.ChunkIDs) \ (DOMAIN downloadedChunks) :
          \E r \in DownloadFromSwarm(store, dlMetadata.ChunkIDs[k]) :
             LET expectedHash == MapGet(dlMetadata.ChunkHashes, k, NoHash)
                 hash == Sha256Hex(r.blob.raw)
             IN /\ fetched' = fetched \cup {dlMetadata.ChunkIDs[k]}
                /\ honest' = (honest /\ r.genuine)
                /\ history' = IF r.err = "" /\ expectedHash # hash
                              THEN history \cup {"ChunkDigestMismatch"}
                              ELSE history
                /\ IF r.err # ""
                   THEN /\ Fatal("Failed to download chunk")
                        /\ UNCHANGED downloadedChunks
                   ELSE IF ~IntegrityOk(expectedHash, hash)
                   THEN /\ Fatal("Chunk integrity check failed")
                        /\ UNCHANGED downloadedChunks
                   ELSE /\ downloadedChunks' = MapPut(downloadedChunks, k, r.blob.raw)
                        /\ UNCHANGED <<pc, exitMsg>>
    /\ UNCHANGED <<prog, guiVars, splitVars, reassembled, calls, cryptoVars, config, osArgs, inputFile, store, files,
                   upVars, dlMetadata, downloadedData, finalData>>

\* the range loop is over: downloadedData = ReassembleChunks(downloadedChunks)
CliReassemble ==
    /\ prog = "cli"
    /\ pc = "downloadChunks"
    /\ DOMAIN dlMetadata.ChunkIDs = DOMAIN downloadedChunks
    /\ \E order \in RangeOrders(DOMAIN downloadedChunks) :
          downloadedData' = ReassembleChunks(downloadedChunks, order)
    /\ history' = history \cup {"ReassembleChunks"}
    /\ pc' = "decrypt"
    /\ UNCHANGED <<prog, guiVars, splitVars, reassembled, calls, cryptoVars, envVars,
                   upVars, dlMetadata, downloadedChunks, finalData, honest, fetched>>

\* the single download: fetch metadata.FileID, compare with metadata.FileHash
CliDownloadFile ==
    /\ prog = "cli"
    /\ pc = "downloadFile"
    /\ fetched' = fetched \cup {dlMetadata.FileID}
    /\ \E r \in DownloadFromSwarm(store, dlMetadata.FileID) :
          /\ honest' = (honest /\ r.genuine)
          /\ history' = IF r.err = "" /\ dlMetadata.FileHash # Sha256Hex(r.blob.raw)
                        THEN history \cup {"FileDigestMismatch"}
                        ELSE history
          /\ IF r.err # ""
             THEN /\ Fatal("Failed to download file")
                  /\ UNCHANGED downloadedData
             ELSE IF ~IntegrityOk(dlMetadata.FileHash, Sha256Hex(r.blob.raw))
             THEN /\ Fatal("File integrity check failed")
                  /\ UNCHANGED downloadedData
             ELSE /\ downloadedData' = r.blob.raw
                  /\ pc' = "decrypt"
                  /\ UNCHANGED exitMsg
    /\ UNCHANGED <<prog, guiVars, splitVars, reassembled, calls, cryptoVars, config, osArgs, inputFile, store, files,
                   upVars, dlMetadata, downloadedChunks, finalData>>

\* mutant: a failed decryption is reported and the download goes on
CliDecrypt_FailOpen ==
    /\ prog = "cli"
    /\ pc = "decrypt"
    /\ IF dlMetadata.Encrypted
       THEN LET k == DecodeString(dlMetadata.Key)
                dec == DecryptData(downloadedData, k.out)
            IN IF k.err # ""
               THEN /\ Fatal("Failed to decode encryption key")
                    /\ UNCHANGED <<finalData, history>>
               ELSE /\ history' = history \cup {"DecryptData"}
                    /\ IF dec.err # ""
                       THEN /\ finalData' = downloadedData
                            /\ pc' = "save"
                            /\ exitMsg' = "Decryption failed"
                       ELSE /\ finalData' = dec.out
                            /\ pc' = "save"
                            /\ UNCHANGED exitMsg
       ELSE /\ finalData' = downloadedData
            /\ pc' = "save"
            /\ UNCHANGED <<exitMsg, history>>
    /\ UNCHANGED <<prog, guiVars, splitVars, reassembled, calls, cryptoVars, config, osArgs, inputFile, store, files,
                   upVars, dlMetadata, downloadedChunks, downloadedData, honest, fetched>>

\* if metadata.Encrypted: decode the key and decrypt; else take the data
CliDecrypt ==
    /\ prog = "cli"
    /\ pc = "decrypt"
    /\ IF dlMetadata.Encrypted
       THEN LET k == DecodeString(dlMetadata.Key)
                dec == DecryptData(downloadedData, k.out)
            IN IF k.err # ""
               THEN /\ Fatal("Failed to decode encryption key")
                    /\ UNCHANGED <<finalData, history>>
               ELSE /\ history' = history \cup {"DecryptData"}
                    /\ IF dec.err # ""
                       THEN /\ Fatal("Decryption failed")
                            /\ UNCHANGED finalData
                       ELSE /\ finalData' = dec.out
                            /\ pc' = "save"
                            /\ UNCHANGED exitMsg
       ELSE /\ finalData' = downloadedData
            /\ pc' = "save"
            /\ UNCHANGED <<exitMsg, history>>
    /\ UNCHANGED <<prog, guiVars, splitVars, reassembled, calls, cryptoVars, config, osArgs, inputFile, store, files,
                   upVars, dlMetadata, downloadedChunks, downloadedData, honest, fetched>>

\* mutant: the downloaded bytes are written as they came
CliSave_Undecrypted ==
    /\ prog = "cli"
    /\ pc = "save"
    /\ files' = MapPut(files, dlMetadata.Filename, downloadedData)
    /\ pc' = "exit"
    /\ exitMsg' = "DOWNLOAD SUCCESSFUL!"
    /\ UNCHANGED <<prog, guiVars, splitVars, reassembled, calls, cryptoVars, config, osArgs, inputFile, store,
                   upVars, downVars>>

\* os.WriteFile(metadata.Filename, finalData, 0644)
CliSave ==
    /\ prog = "cli"
    /\ pc = "save"
    /\ files' = MapPut(files, dlMetadata.Filename, finalData)
    /\ pc' = "exit"
    /\ exitMsg' = "DOWNLOAD SUCCESSFUL!"
    /\ UNCHANGED <<prog, guiVars, splitVars, reassembled, calls, cryptoVars, config, osArgs, inputFile, store,
                   upVars, downVars>>

CliUpload ==
    \/ CliUploadStart
    \/ SplitLoop
    \/ SplitReturn
    \/ CliUploadChunk
    \/ CliUploadChunksDone
    \/ CliUploadFile
    \/ CliUploadMetadata

CliDownload ==
    \/ CliInvokeDownload
    \/ CliDownloadMetadata
    \/ CliDownloadChunk
    \/ CliReassemble
    \/ CliDownloadFile
    \/ CliDecrypt
    \/ CliSave

GuiDownload == GuiDownloadMetadata

Next == CliUpload \/ CliDownload \/ GuiDownload

Spec == CliInit /\ [][Next]_vars

\* ------------------------------------------- the library, called repeatedly
\* SplitIntoChunks, ReassembleChunks, EncryptData and DecryptData called
\* over the same buffers, any number of times up to MaxCalls and in any
\* order; while a SplitIntoChunks is in its loop the other three may be
\* called (from another goroutine).  Every call that returns is recorded
\* with its arguments and its result.

\* the piece map ReassembleChunks is given: the payload as two pieces
PurePieces(d) == [k \in {Itoa(1), Itoa(2)} |-> IF k = Itoa(1) THEN d ELSE Reverse(d)]

PureTestInit ==
    /\ prog = "puretest"
    /\ pc = "idle"
    /\ data \in BSeq(Byte, MaxLen)
    /\ chunkSize \in 1..2
    /\ key \in Keys
    /\ plaintext = data
    /\ downloadedChunks = PurePieces(data)
    /\ \E nonce \in Nonces :
          LET e == EncryptData(data, key, nonce).out
          IN decInput \in {e, Flip(e, Len(e))}
    /\ decKey = key
    /\ i = 0
    /\ chunkNum = 1
    /\ chunks = EmptyMap
    /\ hashes = EmptyMap
    /\ reassembled = <<>>
    /\ calls = <<>>
    /\ encrypted = NoResult
    /\ decrypted = NoResult
    /\ trials = <<>>
    /\ config = [ChunkSizeMB |-> 0, EncryptDefault |-> FALSE]
    /\ osArgs = [action |-> "", arg |-> <<>>, flags |-> {}]
    /\ inputFile = [path |-> <<>>, content |-> <<>>]
    /\ store = {}
    /\ files = EmptyMap
    /\ exitMsg = ""
    /\ dataToUpload = <<>>
    /\ metadata = ZeroMetadata
    /\ chunkIDs = EmptyMap
    /\ metadataCID = NoRef
    /\ dlMetadata = ZeroMetadata
    /\ downloadedData = <<>>
    /\ finalData = <<>>
    /\ honest = TRUE
    /\ history = {}
    /\ fetched = {}
    /\ GuiUnused

\* the calls made so far, the one in progress included
CallsMade == Len(calls) + (IF pc = "idle" THEN 0 ELSE 1)

\* chunks, hashes := SplitIntoChunks(data, chunkSize): the call
PureSplitCall ==
    /\ prog = "puretest"
    /\ pc = "idle"
    /\ CallsMade < MaxCalls
    /\ SplitCall(data, chunkSize)
    /\ pc' = "split"
    /\ UNCHANGED <<prog, guiVars, reassembled, calls, cryptoVars, cliVars>>

\* SplitIntoChunks has returned
PureSplitDone ==
    /\ prog = "puretest"
    /\ pc = "splitdone"
    /\ calls' = Append(calls, [op |-> "SplitIntoChunks", args |-> <<data, chunkSize>>,
                               out |-> <<chunks, hashes>>])
    /\ pc' = "idle"
    /\ UNCHANGED <<prog, guiVars, splitVars, reassembled, cryptoVars, cliVars>>

\* reassembled := ReassembleChunks(downloadedChunks)
PureReassemble ==
    /\ prog = "puretest"
    /\ CallsMade < MaxCalls
    /\ \E order \in RangeOrders(DOMAIN downloadedChunks) :
          /\ reassembled' = ReassembleChunks(downloadedChunks, order)
          /\ calls' = Append(calls, [op |-> "ReassembleChunks", args |-> <<downloadedChunks>>,
                                     out |-> reassembled'])
    /\ UNCHANGED <<prog, guiVars, pc, splitVars, cryptoVars, cliVars>>

\* encrypted, err := EncryptData(plaintext, key), rand.Reader giving any nonce
PureEncrypt ==
    /\ prog = "puretest"
    /\ CallsMade < MaxCalls
    /\ \E nonce \in Nonces :
          /\ encrypted' = EncryptData(plaintext, key, nonce)
          /\ calls' = Append(calls, [op |-> "EncryptData", args |-> <<plaintext, key, nonce>>,
                                     out |-> encrypted'])
    /\ UNCHANGED <<prog, guiVars, pc, splitVars, reassembled, plaintext, key, decInput, decKey, decrypted,
                   trials, cliVars>>

\* decrypted, err := DecryptData(decInput, decKey)
PureDecrypt ==
    /\ prog = "puretest"
    /\ CallsMade < MaxCalls
    /\ decrypted' = DecryptData(decInput, decKey)
    /\ calls' = Append(calls, [op |-> "DecryptData", args |-> <<decInput, decKey>>,
                               out |-> decrypted'])
    /\ UNCHANGED <<prog, guiVars, pc, splitVars, reassembled, plaintext, key, encrypted, decInput, decKey,
                   trials, cliVars>>

PureTestNext ==
    \/ PureSplitCall
    \/ SplitLoop
    \/ SplitReturn
    \/ PureSplitDone
    \/ PureReassemble
    \/ PureEncrypt
    \/ PureDecrypt

PureTestSpec == PureTestInit /\ [][PureTestNext]_vars

\* --------------------------------------------------------- termination
\* SplitIntoChunks as the test calls it and as the upload calls it, the
\* process being scheduled as long as it has a step to take and every call
\* to the object store returning (with a reference or with an error).  The
\* uploads are those without encryption: EncryptData is one call before the
\* split and changes only the length of what is split, and the test gives
\* SplitIntoChunks every length up to MaxLen with every chunk size.

TerminationInit == ChunkTestInit \/ (CliInit /\ ~ShouldEncrypt)

TerminationNext == ChunkTestNext \/ CliUpload

TerminationSpec ==
    TerminationInit /\ [][TerminationNext]_vars /\ WF_vars(TerminationNext)

\* ================================================================ cmd/gui
\* The goroutines of the gui over the shared appState (lock appState.mu) and
\* the shared config (lock configMu): the frame loop, the ping loop, the
\* directory dialog, the two auto-save goroutines, and the transfers the
\* buttons start.  A lock is a variable that holds the goroutine that has
\* it; a goroutine that has called Lock and not yet returned from it has
\* `wants` set to the lock.  A run of critical sections of one goroutine
\* that take no other lock is one step, enabled when the lock is free.

\* the goroutines
Frame == <<"frame", 0>>
Ping == <<"startPingLoop", 0>>
Dialog == <<"dialog", 0>>
SaveTheme == <<"saveTheme", 0>>
SaveDir == <<"saveDir", 0>>
Transfer(n) == <<"transfer", n>>
Transfers == {Transfer(n) : n \in 1..MaxClicks}
Goroutines == {Frame, Ping, Dialog, SaveTheme, SaveDir} \cup Transfers

\* no goroutine holds the lock
Unlocked == <<"", 0>>

\* a goroutine that has not been started: where it is, the lock it waits
\* for, its argument, whether what it called has succeeded
NoGoroutine == [pc |-> "none", wants |-> "", arg |-> <<>>, ok |-> FALSE]

\* a transfer that has not been started: also performUpload(arg) or
\* performDownload(cid), its number, and its locals (of chunkNum, the
\* counter of SplitIntoChunks, whether it is odd)
NoTransfer ==
    [pc |-> "none", wants |-> "", arg |-> <<>>, ok |-> FALSE, op |-> "", cid |-> NoRef, n |-> 0,
     encrypt |-> FALSE, chunkNum |-> 0,
     data |-> <<>>, metadata |-> ZeroMetadata, metadataCID |-> NoRef]

\* the file the upload tab may be pointed at, of MaxLen bytes; any other
\* path does not exist
GuiFiles == [p \in {<<"docs", "a.bin">>} |-> [j \in 1..MaxLen |-> j % 2]]

\* the object store when the gui starts: it holds a file of one byte and the
\* manifest of it, from an upload made before
GuiStored ==
    LET blob == RawBlob(<<1>>)
    IN {blob, JsonBlob(Marshal([ZeroMetadata EXCEPT !.Filename = "old.txt",
                                                     !.FileID = RefOf(blob),
                                                     !.FileHash = Sha256Hex(blob.raw)]))}

\* config.yaml as main() loads it: chunk_size_mb below, at and above what
\* the file needs, encryption by default with the first of them that splits
GuiConfigs ==
    {c \in [ChunkSizeMB : {0 - 1, 0, 1, 2}, EncryptDefault : BOOLEAN,
            DownloadDir : {"/home/u"}, Theme : {"light"}, SwarmAPI : {"http://localhost:1633"}] :
        c.EncryptDefault => c.ChunkSizeMB = 1}

GuiInit ==
    /\ prog = "gui"
    /\ pc = "run"
    /\ config \in GuiConfigs
    /\ appState = [mu |-> Unlocked, isDarkMode |-> FALSE, downloadDir |-> config.DownloadDir,
                   encryptFile |-> config.EncryptDefault, isProcessing |-> FALSE,
                   progress |-> 0, logs |-> <<>>, resultCID |-> NoRef, startTime |-> 0]
    /\ configMu = Unlocked
    /\ goroutines = [g \in Goroutines |->
                        IF g = Frame THEN [NoGoroutine EXCEPT !.pc = "idle"]
                        ELSE IF g = Ping THEN [NoGoroutine EXCEPT !.pc = "idle", !.wants = "configMu"]
                        ELSE IF g \in Transfers THEN NoTransfer
                        ELSE NoGoroutine]
    /\ unguarded = {}
    /\ started = 0
    /\ store = GuiStored
    /\ files = EmptyMap
    /\ osArgs = [action |-> "", arg |-> <<>>, flags |-> {}]
    /\ inputFile = [path |-> <<>>, content |-> <<>>]
    /\ exitMsg = ""
    /\ dataToUpload = <<>>
    /\ metadata = ZeroMetadata
    /\ chunkIDs = EmptyMap
    /\ metadataCID = NoRef
    /\ dlMetadata = ZeroMetadata
    /\ downloadedChunks = EmptyMap
    /\ downloadedData = <<>>
    /\ finalData = <<>>
    /\ honest = TRUE
    /\ history = {}
    /\ fetched = {}
    /\ data = <<>>
    /\ chunkSize = 0
    /\ i = 0
    /\ chunkNum = 1
    /\ chunks = EmptyMap
    /\ hashes = EmptyMap
    /\ reassembled = <<>>
    /\ calls = <<>>
    /\ plaintext = <<>>
    /\ key = <<>>
    /\ encrypted = NoResult
    /\ decInput = <<>>
    /\ decKey = <<>>
    /\ decrypted = NoResult
    /\ trials = <<>>

\* what the gui leaves alone: the variables of the other programs, but the
\* object store, the files and the config
GuiLeaves ==
    UNCHANGED <<prog, pc, splitVars, reassembled, calls, cryptoVars, osArgs, inputFile, exitMsg,
                upVars, downVars>>

\* a panic in a goroutine ends the process
Crashed == \E g \in Goroutines : goroutines[g].pc = "crashed"

\* addLog(msg), under appState.mu
AddLog(st, msgs) == [st EXCEPT !.logs = st.logs \o msgs]

\* an access to config.<field> by goroutine g: recorded if g does not hold
\* configMu
Access(g, kind, field) ==
    IF configMu = g THEN {} ELSE {[by |-> g[1], access |-> kind, field |-> field]}

\* g has called Lock on the lock and the lock is free
CanLockMu(g) == goroutines[g].wants = "mu" /\ appState.mu = Unlocked
CanLockConfigMu(g) == goroutines[g].wants = "configMu" /\ configMu = Unlocked

\* g goes on to p, where the first thing it does is Lock on w ("" if none)
Goto(g, p, w) == [goroutines[g] EXCEPT !.pc = p, !.wants = w]

\* ------------------------------------------------- cmd/gui: performUpload

RECURSIVE SplitFrom(_, _, _, _)
\* the loop of SplitIntoChunks from offset i0 and piece number n, s > 0
SplitFrom(d, s, i0, n) ==
    IF ~(i0 < Len(d)) THEN [chunks |-> EmptyMap, hashes |-> EmptyMap]
    ELSE LET end == Min(i0 + s, Len(d))
             chunk == SubSeq(d, i0 + 1, end)
             rest == SplitFrom(d, s, i0 + s, n + 1)
         IN [chunks |-> MapPut(rest.chunks, Itoa(n), chunk),
             hashes |-> MapPut(rest.hashes, Itoa(n), Sha256Hex(chunk))]

\* SplitIntoChunks(data, chunkSize) where it returns
SplitIntoChunks(d, s) == SplitFrom(d, s, 0, 1)

\* mutant: the guard does not look at isProcessing
PerformUploadGuard_NoCheck(t) ==
    /\ ~Crashed
    /\ goroutines[t].pc = "start"
    /\ goroutines[t].op = "performUpload"
    /\ CanLockMu(t)
    /\ appState' = [appState EXCEPT !.isProcessing = TRUE, !.progress = 0, !.resultCID = NoRef,
                                    !.logs = <<>>, !.startTime = started + 1]
    /\ goroutines' = [goroutines EXCEPT ![t] = [Goto(t, "stat", "mu") EXCEPT
                                                    !.encrypt = appState.encryptFile,
                                                    !.n = started + 1]]
    /\ started' = started + 1
    /\ UNCHANGED <<config, store, files, configMu, unguarded>>
    /\ GuiLeaves

\* mutant: resultCID is left as the upload before set it
PerformUploadGuard_KeepsResult(t) ==
    /\ ~Crashed
    /\ goroutines[t].pc = "start"
    /\ goroutines[t].op = "performUpload"
    /\ CanLockMu(t)
    /\ IF appState.isProcessing
       THEN /\ goroutines' = [goroutines EXCEPT ![t] = Goto(t, "returned", "")]
            /\ UNCHANGED <<appState, started>>
       ELSE /\ appState' = [appState EXCEPT !.isProcessing = TRUE, !.progress = 0,
                                            !.logs = <<>>, !.startTime = started + 1]
            /\ goroutines' = [goroutines EXCEPT ![t] = [Goto(t, "stat", "mu") EXCEPT
                                                            !.encrypt = appState.encryptFile,
                                                            !.n = started + 1]]
            /\ started' = started + 1
    /\ UNCHANGED <<config, store, files, configMu, unguarded>>
    /\ GuiLeaves

\* performUpload, the guard: under appState.mu, return if a transfer is
\* processing; else take the flag and reset progress, resultCID, logs and
\* startTime (the number of the transfer stands for the time)
PerformUploadGuard(t) ==
    /\ ~Crashed
    /\ goroutines[t].pc = "start"
    /\ goroutines[t].op = "performUpload"
    /\ CanLockMu(t)
    /\ IF appState.isProcessing
       THEN /\ goroutines' = [goroutines EXCEPT ![t] = Goto(t, "returned", "")]
            /\ UNCHANGED <<appState, started>>
       ELSE /\ appState' = [appState EXCEPT !.isProcessing = TRUE, !.progress = 0, !.resultCID = NoRef,
                                            !.logs = <<>>, !.startTime = started + 1]
            /\ goroutines' = [goroutines EXCEPT ![t] = [Goto(t, "stat", "mu") EXCEPT
                                                            !.encrypt = appState.encryptFile,
                                                            !.n = started + 1]]
            /\ started' = started + 1
    /\ UNCHANGED <<config, store, files, configMu, unguarded>>
    /\ GuiLeaves

\* performUpload from os.Stat to the upload of the data.  os.Stat fails for
\* a path that does not exist.  The file is read, and encrypted if that was
\* asked for, with the key and nonce GenerateKey and EncryptData draw;
\* chunkSizeBytes := config.ChunkSizeMB * 1024 * 1024 is read without
\* configMu; the pieces or the one blob are uploaded, each with
\* config.SwarmAPI.  With chunkSizeBytes = 0 the loop of SplitIntoChunks adds
\* 0 to i and does not end; with chunkSizeBytes < 0 its first slice panics.
\* An upload of the pieces that fails is taken to fail at the first piece.
PerformUploadData(t) ==
    /\ ~Crashed
    /\ goroutines[t].pc = "stat"
    /\ goroutines[t].op = "performUpload"
    /\ CanLockMu(t)
    /\ IF goroutines[t].arg \notin DOMAIN GuiFiles
       THEN /\ appState' = AddLog(appState, <<"Starting upload process...", "ERROR: Cannot access file">>)
            /\ goroutines' = [goroutines EXCEPT ![t] = Goto(t, "deferred", "mu")]
            /\ UNCHANGED <<store, unguarded>>
       ELSE LET fileData == GuiFiles[goroutines[t].arg]
                newKey == CHOOSE k_ \in Keys : TRUE
                nonce == CHOOSE nonce_ \in Nonces : TRUE
                read == [data |-> IF goroutines[t].encrypt
                                  THEN EncryptData(fileData, newKey, nonce).out ELSE fileData,
                         metadata |-> [ZeroMetadata EXCEPT
                                          !.Filename = Base(goroutines[t].arg),
                                          !.Encrypted = goroutines[t].encrypt,
                                          !.Key = IF goroutines[t].encrypt
                                                  THEN EncodeToString(newKey) ELSE <<>>]]
                logs_ == <<"Starting upload process...", "FILE", "SUCCESS: File read">>
                             \o (IF goroutines[t].encrypt
                                 THEN <<"SUCCESS: Encryption complete">> ELSE <<>>)
                chunkSizeBytes_ == config.ChunkSizeMB * MiB
            IN /\ unguarded' = unguarded \cup Access(t, "read", "ChunkSizeMB")
                                   \cup (IF Len(read.data) > chunkSizeBytes_ /\ chunkSizeBytes_ <= 0
                                         THEN {} ELSE Access(t, "read", "SwarmAPI"))
               /\ IF Len(read.data) > chunkSizeBytes_
                  THEN IF chunkSizeBytes_ = 0
                       THEN /\ appState' = [AddLog(appState, logs_) EXCEPT !.progress = 300]
                            /\ goroutines' = [goroutines EXCEPT ![t] =
                                  [Goto(t, "SplitIntoChunks", "") EXCEPT !.data = read.data,
                                                                         !.metadata = read.metadata]]
                            /\ UNCHANGED store
                       ELSE IF chunkSizeBytes_ < 0
                       THEN /\ appState' = [AddLog(appState, logs_) EXCEPT !.progress = 300]
                            /\ goroutines' = [goroutines EXCEPT ![t] =
                                  [Goto(t, "panic", "mu") EXCEPT !.data = read.data,
                                                                 !.metadata = read.metadata]]
                            /\ UNCHANGED store
                       ELSE LET split == SplitIntoChunks(read.data, chunkSizeBytes_)
                            IN \/ /\ UNCHANGED store
                                  /\ appState' = [AddLog(appState, logs_ \o <<"Split into chunks",
                                                                                 "ERROR uploading chunk">>)
                                                     EXCEPT !.progress = 400]
                                  /\ goroutines' = [goroutines EXCEPT ![t] =
                                        [Goto(t, "deferred", "mu") EXCEPT !.data = read.data,
                                                                          !.metadata = read.metadata]]
                               \/ /\ store' = store \cup {RawBlob(split.chunks[k]) : k \in DOMAIN split.chunks}
                                  /\ appState' = [AddLog(appState, logs_ \o <<"Split into chunks",
                                                                              "SUCCESS: All chunks uploaded">>)
                                                     EXCEPT !.progress = 900]
                                  /\ goroutines' = [goroutines EXCEPT ![t] =
                                        [Goto(t, "uploadMetadata", "mu") EXCEPT
                                            !.data = read.data,
                                            !.metadata = [read.metadata EXCEPT
                                                !.Chunked = TRUE,
                                                !.ChunkIDs = [k \in DOMAIN split.chunks |->
                                                                 RefOf(RawBlob(split.chunks[k]))],
                                                !.ChunkHashes = split.hashes]]]
                  ELSE \/ /\ appState' = [AddLog(appState, logs_ \o <<"ERROR uploading file">>)
                                             EXCEPT !.progress = 300]
                          /\ goroutines' = [goroutines EXCEPT ![t] =
                                [Goto(t, "deferred", "mu") EXCEPT !.data = read.data,
                                                                  !.metadata = read.metadata]]
                          /\ UNCHANGED store
                       \/ LET up == UploadToSwarm(store, RawBlob(read.data))
                          IN /\ store' = up.store
                             /\ appState' = [AddLog(appState, logs_ \o <<"SUCCESS: File uploaded">>)
                                                EXCEPT !.progress = 900]
                             /\ goroutines' = [goroutines EXCEPT ![t] =
                                   [Goto(t, "uploadMetadata", "mu") EXCEPT
                                       !.data = read.data,
                                       !.metadata = [read.metadata EXCEPT
                                           !.Chunked = FALSE,
                                           !.FileID = up.ref,
                                           !.FileHash = Sha256Hex(read.data)]]]
    /\ UNCHANGED <<config, files, configMu, started>>
    /\ GuiLeaves

\* SplitIntoChunks(dataToUpload, 0), an iteration of its loop: the piece
\* data[0:0] is stored under the key chunkNum, chunkNum++, and i += 0 leaves
\* i < len(data) as it was
PerformUploadSplitLoop(t) ==
    /\ ~Crashed
    /\ goroutines[t].pc = "SplitIntoChunks"
    /\ goroutines[t].op = "performUpload"
    /\ goroutines' = [goroutines EXCEPT ![t].chunkNum = (@ + 1) % 2]
    /\ UNCHANGED <<config, store, files, appState, configMu, unguarded, started>>
    /\ GuiLeaves

\* json.MarshalIndent(metadata), its upload, and resultCID = metadataCID
\* under appState.mu
PerformUploadMetadata(t) ==
    /\ ~Crashed
    /\ goroutines[t].pc = "uploadMetadata"
    /\ goroutines[t].op = "performUpload"
    /\ CanLockMu(t)
    /\ unguarded' = unguarded \cup Access(t, "read", "SwarmAPI")
    /\ \/ /\ appState' = AddLog(appState, <<"ERROR uploading metadata">>)
          /\ goroutines' = [goroutines EXCEPT ![t] = Goto(t, "deferred", "mu")]
          /\ UNCHANGED store
       \/ LET up == UploadToSwarm(store, JsonBlob(Marshal(goroutines[t].metadata)))
          IN /\ store' = up.store
             /\ appState' = [AddLog(appState, <<"SUCCESS: Upload Complete!">>)
                                EXCEPT !.progress = 1000, !.resultCID = up.ref]
             /\ goroutines' = [goroutines EXCEPT ![t] = [Goto(t, "deferred", "mu") EXCEPT
                                                             !.metadataCID = up.ref, !.ok = TRUE]]
    /\ UNCHANGED <<config, files, configMu, started>>
    /\ GuiLeaves

\* the deferred function of performUpload and performDownload, on return:
\* isProcessing = false under appState.mu; the data is let go
PerformDeferred(t) ==
    /\ ~Crashed
    /\ goroutines[t].pc = "deferred"
    /\ CanLockMu(t)
    /\ appState' = [appState EXCEPT !.isProcessing = FALSE]
    /\ goroutines' = [goroutines EXCEPT ![t] = [Goto(t, "done", "") EXCEPT !.data = <<>>]]
    /\ UNCHANGED <<config, store, files, configMu, unguarded, started>>
    /\ GuiLeaves

\* the deferred function on a panic; then the runtime ends the process
PerformPanic(t) ==
    /\ ~Crashed
    /\ goroutines[t].pc = "panic"
    /\ CanLockMu(t)
    /\ appState' = [appState EXCEPT !.isProcessing = FALSE]
    /\ goroutines' = [goroutines EXCEPT ![t] = Goto(t, "crashed", "")]
    /\ UNCHANGED <<config, store, files, configMu, unguarded, started>>
    /\ GuiLeaves

PerformUpload(t) ==
    \/ PerformUploadGuard(t)
    \/ PerformUploadData(t)
    \/ PerformUploadSplitLoop(t)
    \/ PerformUploadMetadata(t)

\* ----------------------------------------------- cmd/gui: performDownload

\* performDownload, the guard: as in performUpload, but resultCID is kept
PerformDownloadGuard(t) ==
    /\ ~Crashed
    /\ goroutines[t].pc = "start"
    /\ goroutines[t].op = "performDownload"
    /\ CanLockMu(t)
    /\ IF appState.isProcessing
       THEN /\ goroutines' = [goroutines EXCEPT ![t] = Goto(t, "returned", "")]
            /\ UNCHANGED <<appState, started>>
       ELSE /\ appState' = [appState EXCEPT !.isProcessing = TRUE, !.progress = 0,
                                            !.logs = <<>>, !.startTime = started + 1]
            /\ goroutines' = [goroutines EXCEPT ![t] = [Goto(t, "fetchMetadata", "mu") EXCEPT
                                                            !.n = started + 1]]
            /\ started' = started + 1
    /\ UNCHANGED <<config, store, files, configMu, unguarded>>
    /\ GuiLeaves

\* DownloadFromSwarm(cid, config.SwarmAPI), which fails or answers with what
\* is stored, and json.Unmarshal
PerformDownloadMetadata(t) ==
    LET GuiFetch(st, ref) ==
            {[err |-> "http", blob |-> RawBlob(<<>>)]}
                \cup (IF ref \in Refs(st) THEN {[err |-> "", blob |-> Stored(st, ref)]} ELSE {})
    IN
    /\ ~Crashed
    /\ goroutines[t].pc = "fetchMetadata"
    /\ goroutines[t].op = "performDownload"
    /\ CanLockMu(t)
    /\ unguarded' = unguarded \cup Access(t, "read", "SwarmAPI")
    /\ \E r \in GuiFetch(store, goroutines[t].cid) :
          IF r.err # ""
          THEN /\ appState' = AddLog(appState, <<"Starting Download", "ERROR metadata download">>)
               /\ goroutines' = [goroutines EXCEPT ![t] = Goto(t, "deferred", "mu")]
          ELSE IF r.blob.kind # "json"
          THEN /\ appState' = [AddLog(appState, <<"Starting Download", "ERROR parse metadata">>)
                                  EXCEPT !.progress = 100]
               /\ goroutines' = [goroutines EXCEPT ![t] = Goto(t, "deferred", "mu")]
          ELSE /\ appState' = [AddLog(appState, <<"Starting Download", "Info">>) EXCEPT !.progress = 100]
               /\ goroutines' = [goroutines EXCEPT ![t] = [Goto(t, "fetchData", "mu") EXCEPT
                                                               !.metadata = Unmarshal(r.blob.doc)]]
    /\ UNCHANGED <<config, store, files, configMu, started>>
    /\ GuiLeaves

\* the chunks of metadata.ChunkIDs, each compared with metadata.ChunkHashes[k],
\* and ReassembleChunks; or metadata.FileID, compared with metadata.FileHash:
\* the error logged, or the data
DownloadedData(st, m) ==
    IF m.Chunked
    THEN (IF m.ChunkIDs # EmptyMap THEN {[err |-> "ERROR download chunk", data |-> <<>>]} ELSE {})
            \cup (IF \A k \in DOMAIN m.ChunkIDs : m.ChunkIDs[k] \in Refs(st)
                  THEN LET chunks_ == [k \in DOMAIN m.ChunkIDs |-> Stored(st, m.ChunkIDs[k]).raw]
                       IN IF \E k \in DOMAIN chunks_ :
                                ~IntegrityOk(MapGet(m.ChunkHashes, k, NoHash), Sha256Hex(chunks_[k]))
                          THEN {[err |-> "ERROR Integrity failed chunk", data |-> <<>>]}
                          ELSE {[err |-> "", data |-> ReassembleChunks(chunks_, order)] :
                                    order \in RangeOrders(DOMAIN chunks_)}
                  ELSE {})
    ELSE {[err |-> "ERROR Download failed", data |-> <<>>]}
            \cup (IF m.FileID \in Refs(st)
                  THEN IF ~IntegrityOk(m.FileHash, Sha256Hex(Stored(st, m.FileID).raw))
                       THEN {[err |-> "ERROR File integrity failed", data |-> <<>>]}
                       ELSE {[err |-> "", data |-> Stored(st, m.FileID).raw]}
                  ELSE {})

\* if metadata.Encrypted: decode the key and decrypt; else the data as it is
FinalData(m, downloadedData_) ==
    IF m.Encrypted
    THEN LET k == DecodeString(m.Key)
             dec == DecryptData(downloadedData_, k.out)
         IN IF k.err # "" THEN [err |-> "ERROR decode key", data |-> <<>>]
            ELSE IF dec.err # "" THEN [err |-> "ERROR Decryption", data |-> <<>>]
            ELSE [err |-> "", data |-> dec.out]
    ELSE [err |-> "", data |-> downloadedData_]

\* the data is fetched, checked and decrypted
PerformDownloadData(t) ==
    /\ ~Crashed
    /\ goroutines[t].pc = "fetchData"
    /\ goroutines[t].op = "performDownload"
    /\ CanLockMu(t)
    /\ unguarded' = unguarded \cup Access(t, "read", "SwarmAPI")
                       \cup (IF goroutines[t].metadata.Chunked /\ goroutines[t].metadata.ChunkIDs # EmptyMap
                             THEN Access(t, "read", "ChunkSizeMB") ELSE {})
    /\ \E r \in DownloadedData(store, goroutines[t].metadata) :
          LET final == FinalData(goroutines[t].metadata, r.data)
          IN IF r.err # ""
             THEN /\ appState' = AddLog(appState, <<r.err>>)
                  /\ goroutines' = [goroutines EXCEPT ![t] = Goto(t, "deferred", "mu")]
             ELSE IF final.err # ""
             THEN /\ appState' = [AddLog(appState, <<final.err>>) EXCEPT !.progress = 800]
                  /\ goroutines' = [goroutines EXCEPT ![t] = Goto(t, "deferred", "mu")]
             ELSE /\ appState' = [AddLog(appState, IF goroutines[t].metadata.Encrypted
                                                   THEN <<"SUCCESS: Decrypted">> ELSE <<>>)
                                     EXCEPT !.progress = 900]
                  /\ goroutines' = [goroutines EXCEPT ![t] = [Goto(t, "save", "mu") EXCEPT !.data = final.data]]
    /\ UNCHANGED <<config, store, files, configMu, started>>
    /\ GuiLeaves

\* savePath from config.DownloadDir and os.WriteFile.  config.DownloadDir is
\* read without configMu: the read gives the value stored, and, while the
\* auto-save goroutine is about to store another one, that one or a mix of
\* the two ("torn").  filepath.Join(dir, name) is the name alone if dir is
\* empty.
PerformDownloadSave(t) ==
    LET ReadDownloadDir == IF configMu = SaveDir /\ goroutines[SaveDir].pc = "locked"
                           THEN {config.DownloadDir, goroutines[SaveDir].arg, "torn"}
                           ELSE {config.DownloadDir}
        SavePath(dir, name) == IF dir = "" THEN <<name>> ELSE <<dir, name>>
    IN
    /\ ~Crashed
    /\ goroutines[t].pc = "save"
    /\ goroutines[t].op = "performDownload"
    /\ CanLockMu(t)
    /\ unguarded' = unguarded \cup Access(t, "read", "DownloadDir")
    /\ \E dir \in ReadDownloadDir :
          \/ /\ appState' = AddLog(appState, <<"ERROR Save file">>)
             /\ UNCHANGED files
             /\ goroutines' = [goroutines EXCEPT ![t] = Goto(t, "deferred", "mu")]
          \/ /\ files' = MapPut(files, SavePath(dir, goroutines[t].metadata.Filename), goroutines[t].data)
             /\ appState' = [AddLog(appState, <<"SUCCESS: Saved">>) EXCEPT !.progress = 1000]
             /\ goroutines' = [goroutines EXCEPT ![t] = [Goto(t, "deferred", "mu") EXCEPT !.ok = TRUE]]
    /\ UNCHANGED <<config, store, configMu, started>>
    /\ GuiLeaves

PerformDownload(t) ==
    \/ PerformDownloadGuard(t)
    \/ PerformDownloadMetadata(t)
    \/ PerformDownloadData(t)
    \/ PerformDownloadSave(t)

\* ------------------------------------ cmd/gui: frame loop, settings, ping

\* the transfer goroutine the next `go performUpload / performDownload` makes
NextTransfer ==
    CHOOSE t \in Transfers :
        /\ goroutines[t].pc = "none"
        /\ \A u \in Transfers : goroutines[u].pc = "none" => t[2] <= u[2]

\* the buttons clicked, switches flipped and dialogs opened so far
Clicks ==
    Cardinality({g \in Transfers \cup {Dialog} : goroutines[g].pc # "none"})
        + (IF goroutines[SaveTheme].pc # "none" \/ goroutines[Frame].pc = "themeLocked" THEN 1 ELSE 0)

\* drawUploadTab in a frame in which the Upload button is clicked:
\* appState.encryptFile = ui.encryptCheck.Value under appState.mu, where the
\* check box is as main() has set it, from config.EncryptDefault, and the
\* user leaves it alone; then drawPrimaryActionBtn reads
\* appState.isProcessing under appState.mu, and
\* `if btn.Clicked(gtx) && !isProcessing { onClick() }` starts
\* performUpload(filePath).  The goroutine started has not run yet.
FrameUploadButton ==
    /\ ~Crashed
    /\ goroutines[Frame].pc = "idle"
    /\ appState.mu = Unlocked
    /\ ~appState.isProcessing
    /\ Clicks < MaxClicks
    /\ appState' = [appState EXCEPT !.encryptFile = config.EncryptDefault]
    /\ \E filePath \in DOMAIN GuiFiles \cup {<<"nofile">>} :
          goroutines' = [goroutines EXCEPT
              ![NextTransfer] = [Goto(NextTransfer, "start", "mu") EXCEPT
                                    !.op = "performUpload", !.arg = filePath]]
    /\ UNCHANGED <<config, store, files, configMu, unguarded, started>>
    /\ GuiLeaves

\* drawDownloadTab in a frame in which the Download button is clicked:
\* performDownload(cid) is started the same way; the Download field holds
\* the reference of a manifest of the store
FrameDownloadButton ==
    /\ ~Crashed
    /\ goroutines[Frame].pc = "idle"
    /\ appState.mu = Unlocked
    /\ ~appState.isProcessing
    /\ Clicks < MaxClicks
    /\ \E cid \in {RefOf(b) : b \in {b_ \in store : b_.kind = "json"}} :
          goroutines' = [goroutines EXCEPT
              ![NextTransfer] = [Goto(NextTransfer, "start", "mu") EXCEPT
                                    !.op = "performDownload", !.cid = cid]]
    /\ UNCHANGED <<config, store, files, appState, configMu, unguarded, started>>
    /\ GuiLeaves

\* drawSidebar, the theme switch differs from appState.isDarkMode:
\* appState.mu.Lock()
FrameThemeLock ==
    /\ ~Crashed
    /\ goroutines[Frame].pc = "idle"
    /\ goroutines[SaveTheme].pc = "none"
    /\ Clicks < MaxClicks
    /\ appState.mu = Unlocked
    /\ appState' = [appState EXCEPT !.mu = Frame]
    /\ goroutines' = [goroutines EXCEPT ![Frame] = Goto(Frame, "themeLocked", "")]
    /\ UNCHANGED <<config, store, files, configMu, unguarded, started>>
    /\ GuiLeaves

\* mutant: the frame goroutine saves the theme itself, under appState.mu
FrameThemeSet_SavesInline ==
    /\ ~Crashed
    /\ goroutines[Frame].pc = "themeLocked"
    /\ appState.mu = Frame
    /\ \/ /\ goroutines[Frame].wants = ""
          /\ appState' = [appState EXCEPT !.isDarkMode = ~appState.isDarkMode]
          /\ goroutines' = [goroutines EXCEPT ![Frame] = Goto(Frame, "themeLocked", "configMu")]
          /\ UNCHANGED <<config, unguarded>>
       \/ /\ CanLockConfigMu(Frame)
          /\ config' = [config EXCEPT !.Theme = IF appState.isDarkMode THEN "dark" ELSE "light"]
          /\ unguarded' = unguarded
          /\ appState' = [appState EXCEPT !.mu = Unlocked]
          /\ goroutines' = [goroutines EXCEPT ![Frame] = Goto(Frame, "idle", "")]
    /\ UNCHANGED <<store, files, configMu, started>>
    /\ GuiLeaves

\* appState.isDarkMode = ui.settingsThemeSwitch.Value; go func(isDark) {...};
\* appState.mu.Unlock()
FrameThemeSet ==
    /\ ~Crashed
    /\ goroutines[Frame].pc = "themeLocked"
    /\ appState.mu = Frame
    /\ appState' = [appState EXCEPT !.isDarkMode = ~appState.isDarkMode, !.mu = Unlocked]
    /\ goroutines' = [goroutines EXCEPT
          ![Frame] = Goto(Frame, "idle", ""),
          ![SaveTheme] = [Goto(SaveTheme, "start", "configMu") EXCEPT !.arg = ~appState.isDarkMode]]
    /\ UNCHANGED <<config, store, files, configMu, unguarded, started>>
    /\ GuiLeaves

\* drawSettingsTab, the Browse button: go func() { dialog.Directory()... },
\* and Browse() has returned a directory (on its error the goroutine ends)
FrameBrowse ==
    /\ ~Crashed
    /\ goroutines[Frame].pc = "idle"
    /\ goroutines[Dialog].pc = "none"
    /\ Clicks < MaxClicks
    /\ \E dir \in {"/tmp"} :
          goroutines' = [goroutines EXCEPT ![Dialog] = [Goto(Dialog, "picked", "mu") EXCEPT !.arg = dir]]
    /\ UNCHANGED <<config, store, files, appState, configMu, unguarded, started>>
    /\ GuiLeaves

FrameLoop ==
    \/ FrameUploadButton
    \/ FrameDownloadButton
    \/ FrameThemeLock
    \/ FrameThemeSet
    \/ FrameBrowse

\* under appState.mu: appState.downloadDir = dir; go func(newDir) {...}(dir)
DirectoryDialog ==
    /\ ~Crashed
    /\ goroutines[Dialog].pc = "picked"
    /\ CanLockMu(Dialog)
    /\ appState' = [appState EXCEPT !.downloadDir = goroutines[Dialog].arg]
    /\ goroutines' = [goroutines EXCEPT
          ![Dialog] = Goto(Dialog, "done", ""),
          ![SaveDir] = [Goto(SaveDir, "start", "configMu") EXCEPT !.arg = goroutines[Dialog].arg]]
    /\ UNCHANGED <<config, store, files, configMu, unguarded, started>>
    /\ GuiLeaves

\* configMu.Lock()
AutoSaveLock(g) ==
    /\ ~Crashed
    /\ goroutines[g].pc = "start"
    /\ CanLockConfigMu(g)
    /\ configMu' = g
    /\ goroutines' = [goroutines EXCEPT ![g] = Goto(g, "locked", "")]
    /\ UNCHANGED <<config, store, files, appState, unguarded, started>>
    /\ GuiLeaves

\* config.Theme = "dark" / "light"; SaveConfig("config.yaml", config), after
\* which the file holds the config; on its error addLog, else
\* configMu.Unlock()
SaveThemeWrite ==
    /\ ~Crashed
    /\ goroutines[SaveTheme].pc = "locked"
    /\ config' = [config EXCEPT !.Theme = IF goroutines[SaveTheme].arg THEN "dark" ELSE "light"]
    /\ unguarded' = unguarded \cup Access(SaveTheme, "write", "Theme")
    /\ \/ /\ goroutines' = [goroutines EXCEPT ![SaveTheme] = Goto(SaveTheme, "addLog", "mu")]
          /\ UNCHANGED <<files, configMu>>
       \/ /\ files' = MapPut(files, <<"config.yaml">>, config')
          /\ configMu' = Unlocked
          /\ goroutines' = [goroutines EXCEPT ![SaveTheme] = [Goto(SaveTheme, "done", "") EXCEPT !.ok = TRUE]]
    /\ UNCHANGED <<store, appState, started>>
    /\ GuiLeaves

\* config.DownloadDir = newDir; SaveConfig; addLog on its error and without
SaveDirWrite ==
    /\ ~Crashed
    /\ goroutines[SaveDir].pc = "locked"
    /\ config' = [config EXCEPT !.DownloadDir = goroutines[SaveDir].arg]
    /\ unguarded' = unguarded \cup Access(SaveDir, "write", "DownloadDir")
    /\ \/ /\ goroutines' = [goroutines EXCEPT ![SaveDir] = Goto(SaveDir, "addLog", "mu")]
          /\ UNCHANGED files
       \/ /\ files' = MapPut(files, <<"config.yaml">>, config')
          /\ goroutines' = [goroutines EXCEPT ![SaveDir] = [Goto(SaveDir, "addLog", "mu") EXCEPT !.ok = TRUE]]
    /\ UNCHANGED <<store, appState, configMu, started>>
    /\ GuiLeaves

\* addLog, called with configMu held: appState.mu.Lock()
AutoSaveAddLogLock(g) ==
    /\ ~Crashed
    /\ goroutines[g].pc = "addLog"
    /\ CanLockMu(g)
    /\ appState' = [appState EXCEPT !.mu = g]
    /\ goroutines' = [goroutines EXCEPT ![g] = Goto(g, "logging", "")]
    /\ UNCHANGED <<config, store, files, configMu, unguarded, started>>
    /\ GuiLeaves

\* the message is appended, appState.mu.Unlock(); then configMu.Unlock()
AutoSaveAddLog(g) ==
    /\ ~Crashed
    /\ goroutines[g].pc = "logging"
    /\ appState.mu = g
    /\ appState' = [AddLog(appState, <<IF goroutines[g].ok THEN "Directory setting updated"
                                       ELSE "Error saving config">>)
                       EXCEPT !.mu = Unlocked]
    /\ configMu' = Unlocked
    /\ goroutines' = [goroutines EXCEPT ![g] = Goto(g, "done", "")]
    /\ UNCHANGED <<config, store, files, unguarded, started>>
    /\ GuiLeaves

AutoSave ==
    \/ \E g \in {SaveTheme, SaveDir} : AutoSaveLock(g)
    \/ SaveThemeWrite
    \/ SaveDirWrite
    \/ \E g \in {SaveTheme, SaveDir} : AutoSaveAddLogLock(g)
    \/ \E g \in {SaveTheme, SaveDir} : AutoSaveAddLog(g)

\* check(): apiURL := config.SwarmAPI under configMu; then, client.Get(apiURL)
\* having returned, appState.isOnline and lastPing are set under appState.mu
\* (fields of the display, not followed here)
StartPingLoop ==
    /\ ~Crashed
    /\ \/ /\ goroutines[Ping].pc = "idle"
          /\ CanLockConfigMu(Ping)
          /\ goroutines' = [goroutines EXCEPT ![Ping] = Goto(Ping, "get", "mu")]
       \/ /\ goroutines[Ping].pc = "get"
          /\ CanLockMu(Ping)
          /\ goroutines' = [goroutines EXCEPT ![Ping] = Goto(Ping, "idle", "configMu")]
    /\ UNCHANGED <<config, store, files, appState, configMu, unguarded, started>>
    /\ GuiLeaves

TransferStep(t) ==
    \/ PerformUpload(t)
    \/ PerformDownload(t)
    \/ PerformDeferred(t)
    \/ PerformPanic(t)

GuiNext ==
    \/ FrameLoop
    \/ StartPingLoop
    \/ DirectoryDialog
    \/ AutoSave
    \/ \E t \in Transfers : TransferStep(t)

GuiSpec == GuiInit /\ [][GuiNext]_vars

\* ================================================================== claims

\* a download of the manifest reference the upload printed, every fetch of
\* which has so far returned the bytes stored under the reference
HonestDownload ==
    /\ prog = "cli"
    /\ osArgs.action = "download"
    /\ osArgs.arg = metadataCID
    /\ honest

\* the references the download has still to fetch at its control location
ToFetch ==
    IF pc = "main" THEN {osArgs.arg}
    ELSE IF pc = "downloadChunks"
    THEN {dlMetadata.ChunkIDs[k] : k \in (DOMAIN dlMetadata.ChunkIDs) \ (DOMAIN downloadedChunks)}
    ELSE IF pc = "downloadFile" THEN {dlMetadata.FileID}
    ELSE {}

\* C1: end-to-end round trip.  With a positive chunk size and a store that
\* returns what was stored, the download of the manifest the upload returned
\* never fails, finds in the store every reference it has still to fetch,
\* and when it has exited it has reported success and written exactly the
\* original bytes under the original base filename; with and without
\* encryption, single-blob and chunked.
C1_EndToEndRoundTrip ==
    (HonestDownload /\ chunkSizeBytes > 0) =>
        /\ pc \in {"main", "downloadChunks", "downloadFile", "decrypt", "save", "exit"}
        /\ ToFetch \subseteq Refs(store)
        /\ pc = "exit" =>
              /\ exitMsg = "DOWNLOAD SUCCESSFUL!"
              /\ files = [n \in {Base(inputFile.path)} |-> inputFile.content]

\* C1 witness: an encrypted, chunked file of the longest content downloaded
\* to the end from an honest store
C1_Witness ==
    /\ HonestDownload /\ chunkSizeBytes > 0
    /\ pc = "exit"
    /\ dlMetadata.Encrypted /\ dlMetadata.Chunked
    /\ Cardinality(DOMAIN downloadedChunks) >= 2
    /\ Len(inputFile.content) = MaxLen
    /\ files = [n \in {"a.txt"} |-> inputFile.content]

\* C2: chunk round trip.  For every payload and every positive chunk size,
\* ReassembleChunks of the piece map SplitIntoChunks returned is the payload.
C2_ChunkRoundTrip ==
    (prog = "chunktest" /\ pc = "testdone" /\ chunkSize > 0) => reassembled = data

\* C2 witness: a payload split into several pieces, the last one short
C2_Witness ==
    /\ prog = "chunktest" /\ pc = "testdone"
    /\ chunkSize > 0
    /\ Cardinality(DOMAIN chunks) >= 2
    /\ Len(data) % chunkSize # 0
    /\ reassembled = data

\* C3: encryption round trip.  EncryptData succeeds under a valid key, and
\* DecryptData of its output under the same key returns the plaintext,
\* whichever nonce was drawn.
C3_EncryptionRoundTrip ==
    /\ (prog = "cryptotest" /\ pc \in {"decrypt", "testdone"}) => encrypted.err = ""
    /\ (prog = "cryptotest" /\ pc = "testdone" /\ decInput = encrypted.out /\ decKey = key)
           => decrypted = [err |-> "", out |-> plaintext]

\* C3 witness: a non-empty plaintext decrypted with the key it was sealed under
C3_Witness ==
    /\ prog = "cryptotest" /\ pc = "testdone"
    /\ plaintext # <<>>
    /\ decInput = encrypted.out /\ decKey = key
    /\ decrypted.out = plaintext

\* C4: a digest mismatch aborts the download.  Once a fetched piece's digest
\* differs from the digest the manifest records for its key, the download has
\* failed with the integrity error: ReassembleChunks and DecryptData have not
\* been and are never invoked, and nothing is written.
C4_DigestMismatchAborts ==
    "ChunkDigestMismatch" \in history =>
        /\ pc = "fatal"
        /\ exitMsg = "Chunk integrity check failed"
        /\ "ReassembleChunks" \notin history
        /\ "DecryptData" \notin history
        /\ files = EmptyMap

\* C4 witness: a piece fails its digest after another piece has been accepted
C4_Witness ==
    /\ "ChunkDigestMismatch" \in history
    /\ DOMAIN downloadedChunks # {}
    /\ pc = "fatal"

\* every output of EncryptData under key k, within the bounds
SealedUnder(k) ==
    IF Len(k) \in AesKeySizes
    THEN {EncryptData(p, k, n).out : p \in BSeq(Byte, MaxLen), n \in Nonces}
    ELSE {}

\* C5: authenticated decryption is a hard failure.  Decrypting under another
\* key fails, and so does decrypting any envelope of at least 12 bytes that
\* is not an output of EncryptData under the decryption key; no plaintext
\* bytes are returned.
C5_AuthenticatedDecryption ==
    /\ (prog = "cryptotest" /\ pc = "testdone" /\ decInput = encrypted.out /\ decKey # key)
           => (decrypted.err # "" /\ decrypted.out = <<>>)
    /\ (prog = "cryptotest" /\ pc = "testdone" /\ Len(decInput) >= NonceSize
            /\ decInput \notin SealedUnder(decKey))
           => (decrypted.err # "" /\ decrypted.out = <<>>)

\* C5 witness: a genuine envelope opened with the other valid key
C5_Witness ==
    /\ prog = "cryptotest" /\ pc = "testdone"
    /\ plaintext # <<>>
    /\ decInput = encrypted.out
    /\ decKey \in Keys /\ decKey # key
    /\ Len(decInput) >= NonceSize
    /\ decrypted.err = "AuthenticationFailed"

\* a manifest that names no chunk though chunked, or no key though encrypted
Malformed(m) ==
    \/ m.Chunked /\ DOMAIN m.ChunkIDs = {}
    \/ m.Encrypted /\ m.Key = <<>>

\* C6 (as claimed): a malformed manifest is rejected on load: the download
\* never writes an output file and never reports success for it.
C6_MalformedManifestRejected ==
    (prog = "cli" /\ osArgs.action = "download" /\ Malformed(dlMetadata)) =>
        /\ files = EmptyMap
        /\ exitMsg # "DOWNLOAD SUCCESSFUL!"

\* C7 (as claimed): SplitIntoChunks with chunkSize <= 0 fails at once and
\* produces no piece: it never stores a piece and never returns normally.
C7_InvalidChunkSizeFailsFast ==
    (prog = "chunktest" /\ chunkSize <= 0) => (chunks = EmptyMap /\ pc \in {"split", "panic"})

\* C8: envelope minimum length.  DecryptData of fewer than 12 bytes reports
\* the malformed envelope whatever the key, a key of invalid length included.
C8_EnvelopeMinimumLength ==
    (prog = "cryptotest" /\ pc = "testdone" /\ Len(decInput) < NonceSize)
        => decrypted = [err |-> "TooShort", out |-> <<>>]

\* C8 witness: a short envelope decrypted with a key of invalid length
C8_Witness ==
    /\ prog = "cryptotest" /\ pc = "testdone"
    /\ Len(decInput) < NonceSize
    /\ Len(decInput) > 0
    /\ decKey \in BadKeys
    /\ decrypted.err = "TooShort"

\* the manifests the store holds
Manifests == {Unmarshal(b.doc) : b \in {c \in store : c.kind = "json"}}

\* C9: no partial manifest is persisted.  A chunked manifest is uploaded only
\* when every piece has its reference recorded, every manifest in the store
\* names, for every piece, a reference under which the store holds the piece,
\* and after a failed piece upload there is no manifest at all.
C9_NoPartialManifest ==
    /\ (prog = "cli" /\ pc = "uploadMetadata" /\ metadata.Chunked)
           => (DOMAIN chunkIDs = DOMAIN chunks /\ metadata.ChunkIDs = chunkIDs)
    /\ \A m \in Manifests : m.Chunked =>
           /\ DOMAIN m.ChunkIDs = DOMAIN chunks
           /\ DOMAIN m.ChunkHashes = DOMAIN chunks
           /\ \A k \in DOMAIN chunks :
                 /\ m.ChunkIDs[k] \in Refs(store)
                 /\ Stored(store, m.ChunkIDs[k]) = RawBlob(chunks[k])
    /\ "ChunkUploadFailed" \in history => (Manifests = {} /\ metadataCID = NoRef)

\* C9 witness: the upload of a piece fails after other pieces were uploaded
C9_Witness ==
    /\ "ChunkUploadFailed" \in history
    /\ DOMAIN chunkIDs # {}
    /\ Cardinality(DOMAIN chunks) >= 2
    /\ pc = "fatal"
    /\ Manifests = {}

\* C10: reassembly never proceeds on a partial piece set.  When
\* ReassembleChunks has been invoked, the downloaded pieces have exactly the
\* keys of the manifest's chunk_ids, and each has the digest chunk_hashes
\* records under its key; a key without chunk_hashes entry is not accepted.
C10_ReassemblyOnVerifiedSet ==
    "ReassembleChunks" \in history =>
        /\ DOMAIN downloadedChunks = DOMAIN dlMetadata.ChunkIDs
        /\ \A k \in DOMAIN downloadedChunks :
              /\ k \in DOMAIN dlMetadata.ChunkHashes
              /\ Sha256Hex(downloadedChunks[k]) = dlMetadata.ChunkHashes[k]

\* C10 witness: ReassembleChunks invoked on several verified pieces
C10_Witness ==
    /\ "ReassembleChunks" \in history
    /\ Cardinality(DOMAIN downloadedChunks) >= 2
    /\ DOMAIN downloadedChunks = DOMAIN dlMetadata.ChunkIDs

\* SplitIntoChunks has returned to the test
SplitReturned == prog = "chunktest" /\ pc \in {"reassemble", "testdone"}

\* ceil(n / s) for s > 0
CeilDiv(n, s) == (n + s - 1) \div s

\* C11: chunk count and sizes.  For a payload of n bytes and a positive chunk
\* size s, SplitIntoChunks returns ceil(n/s) pieces (none for n = 0) and as
\* many digests; every piece but the last has s bytes, and the last has
\* n - (ceil(n/s) - 1) * s bytes, between 1 and s.
C11_ChunkCountAndSizes ==
    (SplitReturned /\ chunkSize > 0) =>
        LET n == Len(data)
            s == chunkSize
            k == CeilDiv(n, s)
        IN /\ Cardinality(DOMAIN chunks) = k
           /\ Cardinality(DOMAIN hashes) = k
           /\ (n = 0) => (DOMAIN chunks = {})
           /\ \A j \in 1..k :
                 /\ Itoa(j) \in DOMAIN chunks
                 /\ Len(chunks[Itoa(j)]) = IF j < k THEN s ELSE n - (k - 1) * s
           /\ (k > 0) => (n - (k - 1) * s) \in 1..s

\* C11 witness: three bytes split by two: a full piece and a short last one
C11_Witness ==
    /\ SplitReturned /\ pc = "reassemble"
    /\ Len(data) = 3 /\ chunkSize = 2
    /\ Len(chunks[Itoa(1)]) = 2 /\ Len(chunks[Itoa(2)]) = 1

\* C12: piece identifiers and digests.  The keys of the piece map are the
\* decimal strings of 1..k without gap, piece j is the j-th window of the
\* payload from the left, the digest map has the same keys, and each digest
\* is the hash of the piece under the same key.
C12_PieceIdentifiersAndDigests ==
    (SplitReturned /\ chunkSize > 0) =>
        LET n == Len(data)
            s == chunkSize
            k == CeilDiv(n, s)
        IN /\ DOMAIN chunks = {Itoa(j) : j \in 1..k}
           /\ DOMAIN hashes = DOMAIN chunks
           /\ \A j \in 1..k :
                 chunks[Itoa(j)] = SubSeq(data, (j - 1) * s + 1, IF j * s < n THEN j * s ELSE n)
           /\ \A c \in DOMAIN chunks : hashes[c] = Sha256Hex(chunks[c])

\* C12 witness: three one-byte pieces under the keys "1", "2", "3"
C12_Witness ==
    /\ SplitReturned /\ pc = "testdone"
    /\ chunkSize = 1
    /\ DOMAIN chunks = {<<1>>, <<2>>, <<3>>}
    /\ data[1] # data[2]
    /\ hashes[<<2>>] = Sha256Hex(<<data[2]>>)

RECURSIVE JoinAscending(_, _)
\* the pieces of m under the decimal strings of the numbers nums, joined
\* from the smallest number to the largest
JoinAscending(m, nums) ==
    IF nums = {} THEN <<>>
    ELSE LET x == CHOOSE y \in nums : \A z \in nums : y <= z
         IN m[Digits(x)] \o JoinAscending(m, nums \ {x})

\* C13: numeric ordering in reassembly.  For a piece map keyed by decimal
\* piece identifiers, ReassembleChunks returns the pieces joined in ascending
\* numeric order of the keys, "10" after "9", whatever the order in which
\* the map is ranged over.
C13_NumericOrdering ==
    (prog = "reassembletest" /\ pc = "testdone") =>
        reassembled = JoinAscending(chunks, {DigitsValue(k) : k \in DOMAIN chunks})

\* C13 witness: pieces "2", "9" and "10" with "10" unlike the others: the
\* result ends with piece "10"
C13_Witness ==
    /\ prog = "reassembletest" /\ pc = "testdone"
    /\ DOMAIN chunks = {Itoa(2), Itoa(9), Itoa(10)}
    /\ chunks[Itoa(10)] # chunks[Itoa(9)]
    /\ chunks[Itoa(10)] # chunks[Itoa(2)]
    /\ reassembled = chunks[Itoa(2)] \o chunks[Itoa(9)] \o chunks[Itoa(10)]

\* the manifest documents the store holds, all serialized by the upload
ManifestDocs == {b.doc : b \in {c \in store : c.kind = "json"}}

\* C14 (as claimed): manifest mode exclusivity at upload.  Every manifest the
\* upload serializes has chunked = false, file_id and file_hash and no chunk
\* map, or chunked = true, chunk_ids and chunk_hashes over the same keys and
\* neither file_id nor file_hash.
C14_ManifestModeExclusive ==
    \A d \in ManifestDocs :
        \/ /\ ~d.chunked
           /\ {"file_id", "file_hash"} \subseteq DOMAIN d
           /\ {"chunk_ids", "chunk_hashes"} \cap DOMAIN d = {}
        \/ /\ d.chunked
           /\ {"chunk_ids", "chunk_hashes"} \subseteq DOMAIN d
           /\ DOMAIN d.chunk_ids = DOMAIN d.chunk_hashes
           /\ {"file_id", "file_hash"} \cap DOMAIN d = {}

\* the bytes handed to the store are an output of EncryptData for the file
\* read, under the key of the upload
PostEncryption == \E nonce \in Nonces : dataToUpload = EncryptData(plaintext, key, nonce).out

\* C15: the key field follows the encrypted flag.  A manifest the upload
\* serializes holds a key field exactly if encrypted is true, and the key
\* then is the base64 encoding of the key the uploaded bytes were encrypted
\* under.
C15_KeyFollowsEncrypted ==
    \A d \in ManifestDocs :
        /\ ("key" \in DOMAIN d) <=> d.encrypted
        /\ d.encrypted =>
              /\ d.key = EncodeToString(key)
              /\ DecodeString(d.key) = [err |-> "", out |-> key]
              /\ PostEncryption
              /\ DecryptData(dataToUpload, DecodeString(d.key).out) = [err |-> "", out |-> plaintext]

\* C15 witness: the manifest of an encrypted upload, holding the key
C15_Witness ==
    /\ prog = "cli" /\ osArgs.action = "upload" /\ pc = "exit"
    /\ inputFile.content # <<>>
    /\ \E d \in ManifestDocs : d.encrypted /\ "key" \in DOMAIN d /\ DecodeString(d.key).out = key

\* C16: digests cover the uploaded bytes.  Every digest of an uploaded
\* manifest is the hash of the bytes the store holds under the reference of
\* the same entry; these are the bytes of dataToUpload (its pieces, when
\* chunked), the output of EncryptData when encryption is on.
C16_DigestsCoverUploadedBytes ==
    \A m \in Manifests :
        /\ ~m.Chunked =>
              /\ m.FileID \in Refs(store)
              /\ Stored(store, m.FileID) = RawBlob(dataToUpload)
              /\ m.FileHash = Sha256Hex(dataToUpload)
        /\ m.Chunked =>
              /\ data = dataToUpload
              /\ DOMAIN m.ChunkHashes = DOMAIN m.ChunkIDs
              /\ \A k \in DOMAIN m.ChunkIDs :
                    /\ m.ChunkIDs[k] \in Refs(store)
                    /\ Stored(store, m.ChunkIDs[k]) = RawBlob(chunks[k])
                    /\ m.ChunkHashes[k] = Sha256Hex(Stored(store, m.ChunkIDs[k]).raw)
        /\ m.Encrypted => (PostEncryption /\ dataToUpload # plaintext)
        /\ ~m.Encrypted => dataToUpload = plaintext

\* C16 witness: an encrypted file uploaded as a single blob
C16_Witness ==
    /\ prog = "cli" /\ osArgs.action = "upload" /\ pc = "exit"
    /\ Len(inputFile.content) = MaxLen
    /\ \E m \in Manifests :
          /\ m.Encrypted /\ ~m.Chunked
          /\ m.FileHash = Sha256Hex(dataToUpload)
          /\ m.FileHash # Sha256Hex(plaintext)

C19_EncryptFlagForces ==
    (prog = "cli" /\ osArgs.action = "upload" /\ pc # "main") =>
        /\ hasFlag(osArgs, "--encrypt") => (metadata.Encrypted /\ PostEncryption)
        /\ (hasFlag(osArgs, "--no-encrypt") /\ ~hasFlag(osArgs, "--encrypt"))
               => (~metadata.Encrypted /\ dataToUpload = plaintext)
        /\ (~hasFlag(osArgs, "--no-encrypt") /\ ~hasFlag(osArgs, "--encrypt"))
               => (metadata.Encrypted = config.EncryptDefault)

RECURSIVE SumLen(_, _)
\* the lengths of the pieces of m under the keys K, summed
SumLen(m, K) ==
    IF K = {} THEN 0
    ELSE LET k == CHOOSE x \in K : TRUE
         IN Len(m[k]) + SumLen(m, K \ {k})

\* C20 (as claimed): no piece is lost or duplicated on reassembly.  For the
\* piece map a download hands to ReassembleChunks, whatever keys the fetched
\* manifest gave it, the result holds each piece once: its length is the sum
\* of the lengths of the pieces.
C20_NoPieceLossOnReassembly ==
    "ReassembleChunks" \in history =>
        Len(downloadedData) = SumLen(downloadedChunks, DOMAIN downloadedChunks)

\* a download, by either front end, that was started with a shareable URL
UrlGiven ==
    /\ prog = "cli"
    /\ osArgs.action \in {"download", "performDownload"}
    /\ osArgs.arg \in ShareUrls(metadataCID)

\* C18 (as claimed): a shareable URL is accepted by both front ends.  A
\* download started with a URL holding `download=<CID>` fetches the manifest
\* stored under <CID>, in the cli and in the gui: from a store that returns
\* what it holds, the manifest fetch does not fail and the manifest parsed is
\* the one stored under the reference.
C18_ShareableUrlAccepted ==
    (UrlGiven /\ pc # "main" /\ honest) =>
        /\ exitMsg \notin {"Failed to download metadata", "ERROR metadata download"}
        /\ dlMetadata = Unmarshal(Stored(store, metadataCID).doc)

\* a parsed manifest with both the chunk fields and the single-file fields
BothSets(m) == m.ChunkIDs # EmptyMap /\ m.FileID # NoRef

\* the references of the field set that `chunked` selects
SelectedRefs(m) ==
    IF m.Chunked THEN {m.ChunkIDs[k] : k \in DOMAIN m.ChunkIDs} ELSE {m.FileID}

\* the bytes a finished download has written
Written == MapGet(files, dlMetadata.Filename, <<>>)

\* C21: the deserializer uses one field set only.  In a cli download whose
\* manifest carries chunk fields and single-file fields, the only references
\* asked of the store besides the manifest's are those of the set `chunked`
\* selects, and the bytes written are those of that set: the pieces whose
\* digests are in chunk_hashes joined, or the blob whose digest is file_hash.
C21_OneFieldSetOnly ==
    (prog = "cli" /\ osArgs.action = "download" /\ pc # "main" /\ BothSets(dlMetadata)) =>
        /\ fetched \subseteq {ExtractCid(osArgs.arg)} \cup SelectedRefs(dlMetadata)
        /\ (pc = "exit" /\ ~dlMetadata.Encrypted) =>
              IF dlMetadata.Chunked
              THEN /\ DOMAIN downloadedChunks = DOMAIN dlMetadata.ChunkIDs
                   /\ \A k \in DOMAIN downloadedChunks :
                         Sha256Hex(downloadedChunks[k]) = MapGet(dlMetadata.ChunkHashes, k, NoHash)
                   /\ \E order \in RangeOrders(DOMAIN downloadedChunks) :
                         Written = ReassembleChunks(downloadedChunks, order)
              ELSE /\ downloadedChunks = EmptyMap
                   /\ Sha256Hex(Written) = dlMetadata.FileHash

C21_Witness ==
    /\ prog = "cli"
    /\ osArgs.action = "download"
    /\ pc = "exit"
    /\ BothSets(dlMetadata)
    /\ dlMetadata.Chunked
    /\ Written # <<>>
    /\ dlMetadata.FileID \notin fetched

\* chunk_size_mb * 1024 * 1024 of the configuration
Threshold == config.ChunkSizeMB * MiB

\* the upload took the chunked branch: it is in SplitIntoChunks (running,
\* or stopped by a runtime panic) or in the chunk loop, has failed there, or
\* has set metadata.Chunked
Splits ==
    \/ pc \in {"split", "panic", "uploadChunks"}
    \/ exitMsg = "Failed to upload chunk"
    \/ metadata.Chunked

\* C22: chunking threshold.  The upload splits the data to upload (the
\* envelope when encryption is on) if and only if its length is strictly
\* greater than chunk_size_mb * 1024 * 1024; SplitIntoChunks is given that
\* data and that same value as the piece size; otherwise the data goes up
\* as one blob and the manifest has chunked = false.
C22_ChunkingThreshold ==
    (prog = "cli" /\ osArgs.action = "upload" /\ pc # "main") =>
        /\ IF metadata.Encrypted THEN PostEncryption ELSE dataToUpload = inputFile.content
        /\ Splits <=> Len(dataToUpload) > Threshold
        /\ Splits => (data = dataToUpload /\ chunkSize = Threshold)
        /\ (~Splits /\ pc \in {"uploadMetadata", "exit"}) =>
              /\ ~metadata.Chunked
              /\ metadata.FileID = RefOf(RawBlob(dataToUpload))

\* a payload exactly as long as a positive threshold went up as one blob
C22_Witness ==
    /\ prog = "cli"
    /\ osArgs.action = "upload"
    /\ pc = "exit"
    /\ Threshold > 0
    /\ Len(dataToUpload) = Threshold
    /\ ~metadata.Chunked
    /\ JsonBlob(Marshal(metadata)) \in store

\* the failures of a download: a fetch error, a digest mismatch, a key that
\* does not decode, a failed decryption
DownloadFailures ==
    {"Failed to download metadata", "Failed to parse metadata", "Failed to download chunk",
     "Chunk integrity check failed", "Failed to download file", "File integrity check failed",
     "Failed to decode encryption key", "Decryption failed"}

\* every blob the download has kept matches the digest the manifest records
\* for it
KeptBlobsVerified ==
    IF dlMetadata.Chunked
    THEN /\ DOMAIN downloadedChunks = DOMAIN dlMetadata.ChunkIDs
         /\ \A k \in DOMAIN downloadedChunks :
               Sha256Hex(downloadedChunks[k]) = MapGet(dlMetadata.ChunkHashes, k, NoHash)
    ELSE Sha256Hex(downloadedData) = dlMetadata.FileHash

\* a file exists only at the successful end of a download whose manifest was
\* parsed, whose kept blobs all match their recorded digests and, when the
\* manifest says encrypted, whose bytes are the successful decryption of the
\* downloaded data under the manifest's key; a download that met a failure
\* has written nothing
WrittenOnlyAfterChecks ==
    /\ (prog = "cli" /\ exitMsg \in DownloadFailures) => files = EmptyMap
    /\ (prog = "cli" /\ files # EmptyMap) =>
          /\ osArgs.action = "download" /\ pc = "exit"
          /\ DOMAIN files = {dlMetadata.Filename}
          /\ history \cap {"ChunkDigestMismatch", "FileDigestMismatch"} = {}
          /\ KeptBlobsVerified
          /\ IF dlMetadata.Encrypted
             THEN /\ "DecryptData" \in history
                  /\ DecodeString(dlMetadata.Key).err = ""
                  /\ DecryptData(downloadedData, DecodeString(dlMetadata.Key).out)
                         = [err |-> "", out |-> Written]
             ELSE Written = downloadedData

\* C25: the output file is written only after every check has passed.  In
\* every state WrittenOnlyAfterChecks holds, and the files change at most
\* once in a run: from no file, by the step that ends the download.
C25_WriteAfterAllChecks ==
    /\ []WrittenOnlyAfterChecks
    /\ [][files' # files => (files = EmptyMap /\ pc = "save" /\ pc' = "exit")]_vars

\* C25 witness: an encrypted, chunked download has written its file
C25_Witness ==
    /\ prog = "cli" /\ osArgs.action = "download" /\ pc = "exit"
    /\ dlMetadata.Encrypted /\ dlMetadata.Chunked
    /\ Written # <<>>

\* the iterations of the loop of SplitIntoChunks so far: chunkNum is
\* incremented once per iteration
Iterations == chunkNum - 1

\* for a positive chunk size the loop has run at most ceil(n/s) times, and
\* exactly ceil(n/s) times once it is left
SplitIterations ==
    chunkSize > 0 =>
        IF pc = "split"
        THEN Iterations <= CeilDiv(Len(data), chunkSize)
        ELSE Iterations = CeilDiv(Len(data), chunkSize)

\* C29: splitting terminates.  For a payload of n bytes and a positive piece
\* size s, SplitIntoChunks leaves its loop, after exactly ceil(n/s)
\* iterations; and an upload whose threshold is positive (chunk_size_mb > 0)
\* ends, with its manifest reference or with a failure, when every call to
\* the object store returns.
C29_SplittingTerminates ==
    /\ []SplitIterations
    /\ (pc = "split" /\ chunkSize > 0) ~> (pc # "split")
    /\ (prog = "cli" /\ pc = "main" /\ config.ChunkSizeMB > 0) ~> (pc \in {"exit", "fatal"})

\* C29 witness: a chunked upload has ended after a split of several pieces
C29_Witness ==
    /\ prog = "cli" /\ osArgs.action = "upload" /\ pc = "exit"
    /\ Threshold > 0
    /\ metadata.Chunked
    /\ Iterations = CeilDiv(Len(dataToUpload), Threshold)
    /\ Iterations > 1

\* two recorded calls of the same function with the same arguments (for
\* EncryptData: and the same nonce drawn) have the same result
Repeatable ==
    \A j, k \in 1..Len(calls) :
        (calls[j].op = calls[k].op /\ calls[j].args = calls[k].args)
            => calls[j].out = calls[k].out

\* the buffers, the map and the keys the calls are given
InputBuffers == <<data, chunkSize, downloadedChunks, plaintext, key, decInput, decKey>>

C23_ConfigMuProtectsConfig == unguarded = {}

\* a transfer goroutine that has taken the isProcessing flag and has not
\* given it back
PastGuard(t) == goroutines[t].pc \notin {"none", "start", "returned", "done", "crashed"}

AtMostOneTransfer ==
    /\ Cardinality({t \in Transfers : PastGuard(t)}) <= 1
    /\ (\E t \in Transfers : PastGuard(t)) => appState.isProcessing

\* a goroutine the guard turns away returns and leaves appState as it is
RejectedChangesNothing ==
    \A t \in Transfers :
        /\ (goroutines[t].pc = "start" /\ goroutines'[t].pc = "returned") => appState' = appState
        /\ goroutines[t].pc = "returned" => goroutines'[t] = goroutines[t]

\* C26: at most one transfer goroutine is past the isProcessing guard at a
\* time, whatever the interleaving, and every other one returns without a
\* change to progress, logs, resultCID or startTime
C26_OneTransferAtATime == []AtMostOneTransfer /\ [][RejectedChangesNothing]_vars

\* two clicks were handled before either goroutine ran: one goroutine is
\* past the guard, the other was turned away
C26_Witness ==
    \E t, u \in Transfers : PastGuard(t) /\ goroutines[u].pc = "returned"

\* the gui started with encrypt_default off: EncryptData and DecryptData are
\* calls that return, and take no part in the locks or in isProcessing
GuiLiveInit == GuiInit /\ ~config.EncryptDefault

\* the scheduling of the gui: a goroutine that can take a step does so, and
\* so does one whose lock is free again and again (sync.Mutex does not
\* starve a waiter); every call to the store and the files returns
GuiLiveSpec ==
    /\ GuiLiveInit
    /\ [][GuiNext]_vars
    /\ \A t \in Transfers : SF_vars(TransferStep(t))
    /\ WF_vars(FrameThemeSet)
    /\ \A g \in {SaveTheme, SaveDir} : WF_vars(AutoSaveAddLog(g))

\* C27: a transfer that has set isProcessing sets it back when it ends, so
\* isProcessing becomes false again, given that every call returns
C27_ProcessingFlagReleased == appState.isProcessing ~> ~appState.isProcessing

\* the goroutine that holds the lock
Holder(lock) == IF lock = "mu" THEN appState.mu ELSE configMu

\* g has called Lock on a lock that h holds
WaitsFor(g, h) == goroutines[g].wants # "" /\ Holder(goroutines[g].wants) = h

\* no goroutine calls configMu.Lock() while it holds appState.mu
LockOrder == \A g \in Goroutines : goroutines[g].wants = "configMu" => appState.mu # g

\* no goroutine waits for a lock it holds, no two wait for each other
NoLockCycle == \A g, h \in Goroutines : ~(WaitsFor(g, h) /\ WaitsFor(h, g))

\* C28: configMu may be held while appState.mu is taken, never the reverse,
\* and in no interleaving of the ping loop, the frame loop, the auto-save
\* goroutines and the transfers do goroutines wait for each other's lock
C28_NoLockDeadlock == LockOrder /\ NoLockCycle

\* the directory auto-save holds configMu and waits in addLog for
\* appState.mu, which the frame loop holds in its theme section
C28_Witness ==
    /\ configMu = SaveDir
    /\ goroutines[SaveDir].wants = "mu"
    /\ appState.mu = Frame

\* the uploads that have passed the guard
Uploads == {t \in Transfers : goroutines[t].op = "performUpload" /\ goroutines[t].n > 0}

\* the upload started last
LatestUpload(t) == t \in Uploads /\ \A u \in Uploads : goroutines[u].n <= goroutines[t].n

\* the manifest of upload t and what it names are in the store
UploadComplete(t) ==
    LET m == goroutines[t].metadata
    IN /\ goroutines[t].ok
       /\ JsonBlob(Marshal(m)) \in store
       /\ IF m.Chunked THEN \A k \in DOMAIN m.ChunkIDs : m.ChunkIDs[k] \in Refs(store)
          ELSE m.FileID \in Refs(store)

\* C30: resultCID is empty from the start of an upload until its manifest is
\* stored; a resultCID that is set is the reference of the manifest of the
\* upload started last, which has completed every step
C30_ResultCidNotStale ==
    /\ appState.resultCID # NoRef =>
          \E t \in Transfers :
             /\ LatestUpload(t)
             /\ UploadComplete(t)
             /\ appState.resultCID = RefOf(JsonBlob(Marshal(goroutines[t].metadata)))
    /\ \A t \in Transfers : LatestUpload(t) /\ ~goroutines[t].ok => appState.resultCID = NoRef

\* an upload has completed, a later one has failed: resultCID is empty
C30_Witness ==
    \E t, u \in Uploads :
        /\ goroutines[t].ok
        /\ goroutines[u].n > goroutines[t].n
        /\ goroutines[u].pc = "done"
        /\ ~goroutines[u].ok
        /\ appState.resultCID = NoRef

====
